---- MODULE Spec2Model ----
(***************************************************************************)
(* The Macintosh VIA pair of hw/misc/mac_via.c: the RTC/PRAM serial        *)
(* engine and the ADB host protocol behind port B of VIA1, and the power   *)
(* control bit behind port B of VIA2.                                      *)
(***************************************************************************)
EXTENDS Integers, Sequences, FiniteSets, TLC

(* ------------------------------------------------------------------ *)
(* Program constants                                                    *)
(* ------------------------------------------------------------------ *)
VIA1B_vADBS2 == 32
VIA1B_vADBS1 == 16
VIA1B_vADBInt == 8
VIA1B_vRTCEnb == 4
VIA1B_vRTCClk == 2
VIA1B_vRTCData == 1
VIA2B_vPower == 4
VIA1ACR_vShiftOut == 16
VIA1B_vADB_StateMask == VIA1B_vADBS1 + VIA1B_vADBS2
VIA1B_vADB_StateShift == 4
NANOSECONDS_PER_SECOND == 1000000000

(* ------------------------------------------------------------------ *)
(* Bounds of the model                                                  *)
(* ------------------------------------------------------------------ *)
\* seconds of virtual time the clock may reach
MaxSeconds == 1
\* completed bytes of one transaction kept in the transfer log
MaxXfer == 3
\* shutdown requests after which the machine no longer takes port-B writes
MaxShutdown == 2
\* poll periods of virtual time the clock may reach
MaxPolls == 3

(* ------------------------------------------------------------------ *)
(* C arithmetic on bytes and 32-bit words                               *)
(* ------------------------------------------------------------------ *)
\* bit p (a power of two) of x & y
BitAnd1(x, y, p) ==
    IF (x \div p) % 2 = 1 /\ (y \div p) % 2 = 1 THEN p ELSE 0

\* x & y where one operand is a byte mask
BitAnd(x, y) ==
    BitAnd1(x, y, 1) + BitAnd1(x, y, 2) + BitAnd1(x, y, 4)
    + BitAnd1(x, y, 8) + BitAnd1(x, y, 16) + BitAnd1(x, y, 32)
    + BitAnd1(x, y, 64) + BitAnd1(x, y, 128)

\* x & ~y on bytes
BitClear(x, y) == x - BitAnd(x, y)

\* x | y on bytes
BitOr(x, y) == x + y - BitAnd(x, y)

\* (uint8_t)(x << 1)
Shl8(x) == (2 * x) % 256

\* x >> n
Shr(x, n) == x \div (2 ^ n)

Byte == 0 .. 255

\* A uint32_t is kept as its two 16-bit halves: the value is hi * 2^16 + lo.
U32(h, l) == [hi |-> h, lo |-> l]

\* (uint32_t)(w + n) for 0 <= n < 2^31
Add32(w, n) ==
    LET l == w.lo + (n % 65536)
        h == w.hi + (n \div 65536) + (l \div 65536)
    IN U32(h % 65536, l % 65536)

\* the low 16 bits of w >> n, for n a multiple of 8 below 32
Shr32(w, n) ==
    IF n < 16 THEN Shr(w.lo, n) + (w.hi % (2 ^ n)) * (2 ^ (16 - n))
    ELSE Shr(w.hi, n - 16)

(* ------------------------------------------------------------------ *)
(* State                                                                *)
(* ------------------------------------------------------------------ *)
VARIABLES
    via1_b,          \* VIA1 port B data register (s->b)
    via1_dirb,       \* VIA1 port B direction register (s->dirb)
    via1_acr,        \* VIA1 auxiliary control register (s->acr)
    via1_sr,         \* VIA1 shift register (s->sr)
    last_b,          \* v1s->last_b, port B as the previous port-B write left it
    via2_b,          \* VIA2 port B data register
    via2_dirb,       \* VIA2 port B direction register
    via2_prev_b,     \* VIA2 port B as it was before the last write to it
    data_out,        \* m->data_out
    data_out_cnt,    \* m->data_out_cnt
    data_in,         \* m->data_in
    data_in_cnt,     \* m->data_in_cnt
    cmd,             \* m->cmd
    alt,             \* m->alt
    wprotect,        \* m->wprotect
    PRAM,            \* static uint8_t PRAM[256]
    tick_offset,     \* m->tick_offset
    now,             \* QEMU_CLOCK_VIRTUAL, in nanoseconds
    VBL_timer,       \* deadline of m->VBL_timer in ns, NotArmed when not pending
    one_second_timer,\* deadline of m->one_second_timer in ms
    adb_poll_timer,  \* deadline of m->adb_poll_timer in ns
    reset_pending,   \* devices the running system reset has still to reset
    shutdown_requests, \* calls of qemu_system_shutdown_request so far
    adb_call,        \* the last call made to the ADB bus transport
    rtc_staged,      \* the byte last loaded into data_in with data_in_cnt = 8
    rtc_presented,   \* the bits driven on port B bit 0 since that load
    pram_index,      \* the PRAM index last read or written, NoIndex before
    xfer,            \* completed bytes since the last one decoded with cmd = 0
    last_op,         \* the operation that ran last
    via1_ifr,        \* VIA1 interrupt flag register (s->ifr)
    via2_ifr,        \* VIA2 interrupt flag register
    irq_call,        \* the last call of mdc->update_irq and the parity of the calls
    adb_input,       \* the ADB transport has input for a poll to report
    bus_access,      \* the last call of mos6522_read or mos6522_write
    host_time_ok,    \* the host wall-clock time could be read at realize
    realized,        \* mac_via_realize returned with the device realized
    errp,            \* mac_via_realize reported an error through errp
    via1_frequency,  \* timers[0].frequency and timers[1].frequency of VIA1
    via2_frequency   \* timers[0].frequency and timers[1].frequency of VIA2

via1_vars == <<via1_b, via1_dirb, via1_acr, via1_sr, last_b>>
via2_vars == <<via2_b, via2_dirb, via2_prev_b>>
rtc_vars == <<data_out, data_out_cnt, data_in, data_in_cnt, cmd, alt,
              wprotect, PRAM, rtc_staged, rtc_presented, pram_index, xfer>>
timer_vars == <<VBL_timer, one_second_timer, adb_poll_timer>>
irq_vars == <<via1_ifr, via2_ifr, irq_call>>
freq_vars == <<via1_frequency, via2_frequency>>
env_vars == <<adb_input, bus_access, host_time_ok, realized, errp, freq_vars>>
vars == <<via1_vars, via2_vars, rtc_vars, timer_vars, tick_offset, now,
          reset_pending, shutdown_requests, adb_call, last_op,
          irq_vars, env_vars>>

NotArmed == -1
NoIndex == -1
NoCall == [op |-> "none", state |-> 0, ret |-> 0]
NoIrqCall == [chip |-> "none", ifr |-> 0, parity |-> 0]
NoAccess == [chip |-> "none", kind |-> "none", reg |-> 0, val |-> 0,
             size |-> 0]
Devices == {"mac_via", "via1", "via2"}

\* the RTC engine's view of the device: MacVIAState and the VIA1 registers
M == [b |-> via1_b, dirb |-> via1_dirb, acr |-> via1_acr, sr |-> via1_sr,
      last_b |-> last_b,
      data_out |-> data_out, data_out_cnt |-> data_out_cnt,
      data_in |-> data_in, data_in_cnt |-> data_in_cnt,
      cmd |-> cmd, alt |-> alt, wprotect |-> wprotect, PRAM |-> PRAM,
      staged |-> rtc_staged, presented |-> rtc_presented,
      pram_index |-> pram_index, xfer |-> xfer, adb_call |-> adb_call]

Store(m) ==
    /\ via1_b' = m.b
    /\ via1_dirb' = m.dirb
    /\ via1_acr' = m.acr
    /\ via1_sr' = m.sr
    /\ last_b' = m.last_b
    /\ data_out' = m.data_out
    /\ data_out_cnt' = m.data_out_cnt
    /\ data_in' = m.data_in
    /\ data_in_cnt' = m.data_in_cnt
    /\ cmd' = m.cmd
    /\ alt' = m.alt
    /\ wprotect' = m.wprotect
    /\ PRAM' = m.PRAM
    /\ rtc_staged' = m.staged
    /\ rtc_presented' = m.presented
    /\ pram_index' = m.pram_index
    /\ xfer' = m.xfer
    /\ adb_call' = m.adb_call

(* ------------------------------------------------------------------ *)
(* via1_rtc_update: the RTC/PRAM serial engine                          *)
(* ------------------------------------------------------------------ *)

\* RtcTime latched when the device was created: the clock is not read
RtcTimeLatched(offset, clock) == offset

\* uint32_t time = m->tick_offset + (qemu_clock_get_ns() / NANOSECONDS_PER_SECOND)
RtcTime(offset, clock) == Add32(offset, clock \div NANOSECONDS_PER_SECOND)

\* RtcSecondsByte with the registers in big-endian order
RtcSecondsByteSwapped(time, reg) == BitAnd(Shr32(time, 8 * (3 - reg)), 255)

\* (time >> (8 * reg)) & 0xff, the value loaded by seconds register reg
RtcSecondsByte(time, reg) == BitAnd(Shr32(time, 8 * reg), 255)

\* PramAddr4 with the mask of the 16-entry window
PramAddr4Wide(x) == BitAnd(Shr(x, 2), 15)

\* the PRAM index of the first (data_out & 0xf3) == 0xa1 branch
PramAddr4(x) == BitAnd(Shr(x, 2), 3)

\* the PRAM index of the second (data_out & 0xf3) == 0xa1 branch
PramAddr16(x) == BitAnd(Shr(x, 2), 15)

\* PramAddrExt taking the whole command byte for the sector
PramAddrExtWholeCommand(c, x) == c * 8 + BitAnd(Shr(x, 2), 31)

\* PramAddrExt taking the address from the low five bits of the byte
PramAddrExtLowBits(c, x) == BitAnd(c, 7) * 8 + BitAnd(x, 31)

\* the PRAM index of the extended branches: sector * 8 + addr
PramAddrExt(c, x) == BitAnd(c, 7) * 8 + BitAnd(Shr(x, 2), 31)

\* m->data_in = v; m->data_in_cnt = 8;
RtcStage(m, v) ==
    [m EXCEPT !.data_in = v, !.data_in_cnt = 8,
              !.staged = v, !.presented = << >>]

\* PRAM[addr]: the variable PRAM holds the entries that are not 0
PramGet(pram, addr) == IF addr \in DOMAIN pram THEN pram[addr] ELSE 0

\* PRAM[addr] = v
PramPut(pram, addr, v) ==
    [i \in (IF v = 0 THEN DOMAIN pram \ {addr} ELSE DOMAIN pram \cup {addr})
        |-> IF i = addr THEN v ELSE pram[i]]

\* m->data_in = PRAM[addr]; m->data_in_cnt = 8;
RtcStagePram(m, addr) ==
    [RtcStage(m, PramGet(m.PRAM, addr)) EXCEPT !.pram_index = addr]

\* PRAM[addr] = m->data_out;
RtcStorePram(m, addr) ==
    [m EXCEPT !.PRAM = PramPut(m.PRAM, addr, m.data_out),
              !.pram_index = addr]

\* RtcSendBit filling data_out from the low bit upwards
RtcSendBitLsb(m) ==
    IF BitAnd(m.last_b, VIA1B_vRTCClk) = 0 /\ BitAnd(m.b, VIA1B_vRTCClk) # 0
    THEN [m EXCEPT !.data_out = BitOr(m.data_out,
                       BitAnd(m.b, VIA1B_vRTCData) * 2 ^ m.data_out_cnt),
                   !.data_out_cnt = m.data_out_cnt + 1]
    ELSE m

\* the data direction is output and the clock rises: one bit to the RTC
RtcSendBit(m) ==
    IF BitAnd(m.last_b, VIA1B_vRTCClk) = 0 /\ BitAnd(m.b, VIA1B_vRTCClk) # 0
    THEN [m EXCEPT !.data_out = BitOr(Shl8(m.data_out),
                                      BitAnd(m.b, VIA1B_vRTCData)),
                   !.data_out_cnt = m.data_out_cnt + 1]
    ELSE m

\* RtcReceiveBit presenting the low bit first
RtcReceiveBitLsb(m) ==
    IF /\ BitAnd(m.last_b, VIA1B_vRTCClk) # 0
       /\ BitAnd(m.b, VIA1B_vRTCClk) = 0
       /\ m.data_in_cnt # 0
    THEN LET nb == BitOr(BitClear(m.b, VIA1B_vRTCData),
                         BitAnd(m.data_in, VIA1B_vRTCData))
         IN [m EXCEPT !.b = nb,
                      !.data_in = Shr(m.data_in, 1),
                      !.data_in_cnt = m.data_in_cnt - 1,
                      !.presented = Append(m.presented, nb % 2)]
    ELSE m

\* RtcReceiveBit without the test of data_in_cnt
RtcReceiveBitUncounted(m) ==
    IF /\ BitAnd(m.last_b, VIA1B_vRTCClk) # 0
       /\ BitAnd(m.b, VIA1B_vRTCClk) = 0
    THEN LET nb == BitOr(BitClear(m.b, VIA1B_vRTCData),
                         BitAnd(Shr(m.data_in, 7), VIA1B_vRTCData))
         IN [m EXCEPT !.b = nb,
                      !.data_in = Shl8(m.data_in),
                      !.data_in_cnt = m.data_in_cnt - 1,
                      !.presented = Append(m.presented, nb % 2)]
    ELSE m

\* the data direction is input and the clock falls: one bit from the RTC
RtcReceiveBit(m) ==
    IF /\ BitAnd(m.last_b, VIA1B_vRTCClk) # 0
       /\ BitAnd(m.b, VIA1B_vRTCClk) = 0
       /\ m.data_in_cnt # 0
    THEN LET nb == BitOr(BitClear(m.b, VIA1B_vRTCData),
                         BitAnd(Shr(m.data_in, 7), VIA1B_vRTCData))
         IN [m EXCEPT !.b = nb,
                      !.data_in = Shl8(m.data_in),
                      !.data_in_cnt = m.data_in_cnt - 1,
                      !.presented = Append(m.presented, nb % 2)]
    ELSE m

\* RtcReadCommand latching a byte that no read rule decodes
RtcReadCommandLatching(m, time) ==
    IF m.data_out = 129 THEN RtcStage(m, RtcSecondsByte(time, 0))
    ELSE IF m.data_out = 133 THEN RtcStage(m, RtcSecondsByte(time, 1))
    ELSE IF m.data_out = 137 THEN RtcStage(m, RtcSecondsByte(time, 2))
    ELSE IF m.data_out = 141 THEN RtcStage(m, RtcSecondsByte(time, 3))
    ELSE IF BitAnd(m.data_out, 243) = 161
         THEN RtcStagePram(m, PramAddr4(m.data_out))
    ELSE [m EXCEPT !.cmd = m.data_out]

\* cmd == 0 and data_out & 0x80: a read command
RtcReadCommand(m, time) ==
    IF m.data_out = 129 THEN RtcStage(m, RtcSecondsByte(time, 0))
    ELSE IF m.data_out = 133 THEN RtcStage(m, RtcSecondsByte(time, 1))
    ELSE IF m.data_out = 137 THEN RtcStage(m, RtcSecondsByte(time, 2))
    ELSE IF m.data_out = 141 THEN RtcStage(m, RtcSecondsByte(time, 3))
    ELSE IF BitAnd(m.data_out, 243) = 161
         THEN RtcStagePram(m, PramAddr4(m.data_out))
    ELSE IF BitAnd(m.data_out, 243) = 161
         THEN RtcStagePram(m, PramAddr16(m.data_out))
    ELSE IF BitAnd(m.data_out, 248) = 184
         THEN [m EXCEPT !.cmd = m.data_out]
    ELSE m

\* RtcReadExtended ending the transaction once the response is staged
RtcReadExtendedClearing(m) ==
    IF BitAnd(m.cmd, 248) = 184
    THEN [RtcStagePram(m, PramAddrExt(m.cmd, m.data_out)) EXCEPT !.cmd = 0]
    ELSE m

\* cmd != 0 and cmd & 0x80: the extended read
RtcReadExtended(m) ==
    IF BitAnd(m.cmd, 248) = 184
    THEN RtcStagePram(m, PramAddrExt(m.cmd, m.data_out))
    ELSE m

\* RtcWriteCommand without the write-protect test, decoding the PRAM
\* window from the byte just received as the read decoder does
RtcWriteCommandUngated(m) ==
    IF BitAnd(m.data_out, 243) = 161
    THEN RtcStorePram(m, PramAddr4(m.data_out))
    ELSE IF m.alt # 0
         THEN [RtcStorePram(m, PramAddrExt(m.cmd, m.alt)) EXCEPT !.alt = 0]
    ELSE IF m.cmd = 53 THEN [m EXCEPT !.wprotect = BitAnd(m.data_out, 1)]
    ELSE IF BitAnd(m.cmd, 248) = 184 THEN [m EXCEPT !.alt = m.cmd]
    ELSE m

\* RtcWriteCommand matching the PRAM patterns without the high bit, which
\* no write command has
RtcWriteCommandMasked(m) ==
    IF m.wprotect # 0 THEN m
    ELSE IF m.alt # 0
         THEN [RtcStorePram(m, PramAddrExt(m.cmd, m.alt)) EXCEPT !.alt = 0]
    ELSE IF m.cmd = 53 THEN [m EXCEPT !.wprotect = BitAnd(m.data_out, 1)]
    ELSE IF BitAnd(m.cmd, 115) = 33
         THEN RtcStorePram(m, PramAddr4(m.cmd))
    ELSE IF BitAnd(m.cmd, 120) = 56
         THEN [m EXCEPT !.alt = m.cmd]
    ELSE m

\* cmd != 0, cmd & 0x80 == 0: the write commands, behind !m->wprotect
RtcWriteCommand(m) ==
    IF m.wprotect # 0 THEN m
    ELSE IF m.alt # 0
         THEN [RtcStorePram(m, PramAddrExt(m.cmd, m.alt)) EXCEPT !.alt = 0]
    ELSE IF m.cmd = 1 THEN m
    ELSE IF m.cmd = 5 THEN m
    ELSE IF m.cmd = 9 THEN m
    ELSE IF m.cmd = 13 THEN m
    ELSE IF m.cmd = 49 THEN m
    ELSE IF m.cmd = 53 THEN [m EXCEPT !.wprotect = BitAnd(m.data_out, 1)]
    ELSE IF BitAnd(m.cmd, 243) = 161
         THEN RtcStorePram(m, PramAddr4(m.cmd))
    ELSE IF BitAnd(m.cmd, 243) = 161
         THEN RtcStorePram(m, PramAddr16(m.cmd))
    ELSE IF BitAnd(m.cmd, 248) = 184
         THEN [m EXCEPT !.alt = m.cmd]
    ELSE m

\* the transfer log: a byte decoded with cmd = 0 opens a transaction
XferLog(m) ==
    IF m.cmd = 0 THEN << m.data_out >>
    ELSE IF Len(m.xfer) < MaxXfer THEN Append(m.xfer, m.data_out)
    ELSE m.xfer

\* RtcByte without the final m->data_out = 0
RtcByteKeepingData(m, time) ==
    LET m0 == [m EXCEPT !.data_out_cnt = 0, !.xfer = XferLog(m)]
    IN IF m.cmd = 0
       THEN IF BitAnd(m.data_out, 128) # 0
            THEN RtcReadCommand(m0, time)
            ELSE [m0 EXCEPT !.cmd = m.data_out]
       ELSE IF BitAnd(m.cmd, 128) # 0
            THEN RtcReadExtended(m0)
            ELSE RtcWriteCommand(m0)

\* RtcByte sending every latched command to the write branch
RtcByteWriteOnly(m, time) ==
    LET m0 == [m EXCEPT !.data_out_cnt = 0, !.xfer = XferLog(m)]
        m1 == IF m.cmd = 0
              THEN IF BitAnd(m.data_out, 128) # 0
                   THEN RtcReadCommand(m0, time)
                   ELSE [m0 EXCEPT !.cmd = m.data_out]
              ELSE RtcWriteCommand(m0)
    IN [m1 EXCEPT !.data_out = 0]

\* data_out_cnt == 8: a byte is complete and is interpreted
RtcByte(m, time) ==
    LET m0 == [m EXCEPT !.data_out_cnt = 0, !.xfer = XferLog(m)]
        m1 == IF m.cmd = 0
              THEN IF BitAnd(m.data_out, 128) # 0
                   THEN RtcReadCommand(m0, time)
                   ELSE [m0 EXCEPT !.cmd = m.data_out]
              ELSE IF BitAnd(m.cmd, 128) # 0
                   THEN RtcReadExtended(m0)
                   ELSE RtcWriteCommand(m0)
    IN [m1 EXCEPT !.data_out = 0]

\* via1_rtc_update without the test of the enable line
via1_rtc_update_ungated(m, offset, clock) ==
    LET m1 == IF BitAnd(m.dirb, VIA1B_vRTCData) # 0
              THEN RtcSendBit(m)
              ELSE RtcReceiveBit(m)
    IN IF m1.data_out_cnt = 8
       THEN RtcByte(m1, RtcTime(offset, clock))
       ELSE m1

via1_rtc_update(m, offset, clock) ==
    IF BitAnd(m.b, VIA1B_vRTCEnb) # 0 THEN m
    ELSE LET m1 == IF BitAnd(m.dirb, VIA1B_vRTCData) # 0
                   THEN RtcSendBit(m)
                   ELSE RtcReceiveBit(m)
         IN IF m1.data_out_cnt = 8
            THEN RtcByte(m1, RtcTime(offset, clock))
            ELSE m1

(* ------------------------------------------------------------------ *)
(* via1_adb_update: the ADB host protocol                               *)
(* ------------------------------------------------------------------ *)

\* state = (s->b & VIA1B_vADB_StateMask) >> VIA1B_vADB_StateShift
AdbState(bv) == Shr(BitAnd(bv, VIA1B_vADB_StateMask), VIA1B_vADB_StateShift)

\* adb_receive(&m->adb_bus, state, &s->sr) leaves the byte rx in s->sr,
\* or leaves s->sr alone when rx is NoData
NoData == -1
AdbReceived(srv, rx) == IF rx = NoData THEN srv ELSE rx

\* via1_adb_update without the test of the received byte against 0xff
via1_adb_update_no_idle(m, ret, rx) ==
    IF BitAnd(m.acr, VIA1ACR_vShiftOut) # 0
    THEN LET call == [op |-> "send", state |-> AdbState(m.b), ret |-> ret]
         IN IF ret > 0
            THEN [m EXCEPT !.b = BitClear(m.b, VIA1B_vADBInt),
                           !.adb_call = call]
            ELSE [m EXCEPT !.b = BitOr(m.b, VIA1B_vADBInt),
                           !.adb_call = call]
    ELSE LET call == [op |-> "receive", state |-> AdbState(m.b), ret |-> ret]
             nsr == AdbReceived(m.sr, rx)
         IN IF ret > 0
            THEN [m EXCEPT !.b = BitClear(m.b, VIA1B_vADBInt),
                           !.sr = nsr, !.adb_call = call]
            ELSE [m EXCEPT !.b = BitOr(m.b, VIA1B_vADBInt),
                           !.sr = nsr, !.adb_call = call]

\* ret is the transport's result, rx the byte a receive stores
via1_adb_update(m, ret, rx) ==
    IF BitAnd(m.acr, VIA1ACR_vShiftOut) # 0
    THEN LET call == [op |-> "send", state |-> AdbState(m.b), ret |-> ret]
         IN IF ret > 0
            THEN [m EXCEPT !.b = BitClear(m.b, VIA1B_vADBInt),
                           !.adb_call = call]
            ELSE [m EXCEPT !.b = BitOr(m.b, VIA1B_vADBInt),
                           !.adb_call = call]
    ELSE LET call == [op |-> "receive", state |-> AdbState(m.b), ret |-> ret]
             nsr == AdbReceived(m.sr, rx)
         IN IF ret > 0 /\ nsr # 255
            THEN [m EXCEPT !.b = BitClear(m.b, VIA1B_vADBInt),
                           !.sr = nsr, !.adb_call = call]
            ELSE [m EXCEPT !.b = BitOr(m.b, VIA1B_vADBInt),
                           !.sr = nsr, !.adb_call = call]

\* mos6522_q800_via1_portB_write taking the snapshot before the engines run
mos6522_q800_via1_portB_write_snapshot_first(m, offset, clock, ret, rx) ==
    LET m0 == [m EXCEPT !.last_b = m.b]
        m1 == via1_rtc_update(m0, offset, clock)
    IN via1_adb_update(m1, ret, rx)

\* mos6522_q800_via1_portB_write: RTC engine, ADB engine, then the snapshot
mos6522_q800_via1_portB_write(m, offset, clock, ret, rx) ==
    LET m1 == via1_rtc_update(m, offset, clock)
        m2 == via1_adb_update(m1, ret, rx)
    IN [m2 EXCEPT !.last_b = m2.b]

\* via2_power_off without the test of the direction register
via2_power_off_any_dir(dirb, bv) == BitAnd(bv, VIA2B_vPower) = 0

\* via2_power_off with the level of the power bit inverted
via2_power_off_high(dirb, bv) ==
    BitAnd(dirb, VIA2B_vPower) # 0 /\ BitAnd(bv, VIA2B_vPower) # 0

\* mos6522_q800_via2_portB_write: TRUE when a shutdown is requested
via2_power_off(dirb, bv) ==
    BitAnd(dirb, VIA2B_vPower) # 0 /\ BitAnd(bv, VIA2B_vPower) = 0

\* mos6522_write of register B: only the output bits take the written value
mos6522_write_B(bv, dirb, val) ==
    BitOr(BitClear(bv, dirb), BitAnd(val, dirb))

(* ------------------------------------------------------------------ *)
(* Construction and reset                                               *)
(* ------------------------------------------------------------------ *)

\* m->tick_offset = (uint32_t)mktimegm(&tm) + RTC_OFFSET, for some host times
TickOffsets == {U32(4660, 22136), U32(65535, 65535)}

\* the object is zero-filled, mac_via_realize creates the timers and sets
\* tick_offset; the machine resets every device before the guest runs.
\* mac_via_realize has no return before its end and never assigns errp,
\* whether qemu_get_timedate could read the host time (ok) or left tm as
\* it found it, and then any tick_offset comes out.
InitFrom(offsets, hosts) ==
    /\ via1_b = 0 /\ via1_dirb = 0 /\ via1_acr = 0 /\ via1_sr = 0
    /\ last_b = 0
    /\ via2_b = 0 /\ via2_dirb = 0 /\ via2_prev_b = 0
    /\ data_out = 0 /\ data_out_cnt = 0
    /\ data_in = 0 /\ data_in_cnt = 0
    /\ cmd = 0 /\ alt = 0 /\ wprotect = 0
    /\ PRAM = [i \in {} |-> 0]
    /\ tick_offset \in offsets
    /\ now = 0
    /\ VBL_timer = NotArmed
    /\ one_second_timer = NotArmed
    /\ adb_poll_timer = NotArmed
    /\ reset_pending = Devices
    /\ shutdown_requests = 0
    /\ adb_call = NoCall
    /\ rtc_staged = 0
    /\ rtc_presented = << >>
    /\ pram_index = NoIndex
    /\ xfer = << >>
    /\ last_op = "init"
    /\ via1_ifr = 0 /\ via2_ifr = 0
    /\ irq_call = NoIrqCall
    /\ adb_input = FALSE
    /\ bus_access = NoAccess
    /\ host_time_ok \in hosts
    /\ realized = TRUE
    /\ errp = FALSE
    /\ via1_frequency = << 0, 0 >>
    /\ via2_frequency = << 0, 0 >>

\* construction on a host whose wall-clock time can be read
InitWith(offsets) == InitFrom(offsets, {TRUE})

Init == InitWith(TickOffsets)

\* the guest runs only between system resets
Running == reset_pending = {}

\* a system reset begins: every device's reset handler will run
qemu_system_reset ==
    /\ last_op' = "qemu_system_reset"
    /\ Running
    /\ reset_pending' = Devices
    /\ UNCHANGED <<irq_vars, env_vars, via1_vars, via2_vars, rtc_vars, timer_vars, tick_offset,
                   now, shutdown_requests, adb_call>>

VBL_PERIOD == 16630
ONE_SECOND_PERIOD == 1000
VIA_ADB_POLL_FREQ == 50
SCALE_MS == 1000000

\* VBL_next adding the period to the current time
VBL_next_drifting(clock) == clock + VBL_PERIOD

\* (qemu_clock_get_ns(QEMU_CLOCK_VIRTUAL) + 16630) / 16630 * 16630
VBL_next(clock) == ((clock + VBL_PERIOD) \div VBL_PERIOD) * VBL_PERIOD

\* one_second_next rounding the present time up to a multiple of the period
one_second_next_ceil(clock) ==
    ((clock \div SCALE_MS + ONE_SECOND_PERIOD - 1) \div ONE_SECOND_PERIOD)
        * ONE_SECOND_PERIOD

\* (qemu_clock_get_ms(QEMU_CLOCK_VIRTUAL) + 1000) / 1000 * 1000
one_second_next(clock) ==
    ((clock \div SCALE_MS + ONE_SECOND_PERIOD) \div ONE_SECOND_PERIOD)
        * ONE_SECOND_PERIOD

\* qemu_clock_get_ns(QEMU_CLOCK_VIRTUAL) + NANOSECONDS_PER_SECOND / VIA_ADB_POLL_FREQ
adb_poll_next(clock) ==
    clock + (NANOSECONDS_PER_SECOND \div VIA_ADB_POLL_FREQ)

\* mac_via_reset starting the RTC serial engine afresh
mac_via_reset_clearing_rtc ==
    /\ last_op' = "mac_via_reset"
    /\ "mac_via" \in reset_pending
    /\ reset_pending' = reset_pending \ {"mac_via"}
    /\ adb_poll_timer' = adb_poll_next(now)
    /\ VBL_timer' = VBL_next(now)
    /\ one_second_timer' = one_second_next(now)
    /\ data_out' = 0 /\ data_out_cnt' = 0
    /\ data_in' = 0 /\ data_in_cnt' = 0
    /\ cmd' = 0 /\ alt' = 0 /\ wprotect' = 0
    /\ UNCHANGED <<irq_vars, env_vars, via1_vars, via2_vars, PRAM,
                   rtc_staged, rtc_presented, pram_index, xfer,
                   tick_offset, now, shutdown_requests, adb_call>>

\* mac_via_reset loading the first PRAM entry with a default
mac_via_reset_loading_pram ==
    /\ last_op' = "mac_via_reset"
    /\ "mac_via" \in reset_pending
    /\ reset_pending' = reset_pending \ {"mac_via"}
    /\ adb_poll_timer' = adb_poll_next(now)
    /\ VBL_timer' = VBL_next(now)
    /\ one_second_timer' = one_second_next(now)
    /\ PRAM' = PramPut(PRAM, 0, 255)
    /\ UNCHANGED <<irq_vars, env_vars, via1_vars, via2_vars, data_out,
                   data_out_cnt, data_in, data_in_cnt, cmd, alt, wprotect,
                   rtc_staged, rtc_presented, pram_index, xfer,
                   tick_offset, now, shutdown_requests, adb_call>>

\* mac_via_reset without the timer_mod of the one-second alarm
mac_via_reset_no_tick ==
    /\ last_op' = "mac_via_reset"
    /\ "mac_via" \in reset_pending
    /\ reset_pending' = reset_pending \ {"mac_via"}
    /\ adb_poll_timer' = adb_poll_next(now)
    /\ VBL_timer' = VBL_next(now)
    /\ UNCHANGED <<irq_vars, env_vars, one_second_timer, via1_vars,
                   via2_vars, rtc_vars, tick_offset, now,
                   shutdown_requests, adb_call>>

mac_via_reset ==
    /\ last_op' = "mac_via_reset"
    /\ "mac_via" \in reset_pending
    /\ reset_pending' = reset_pending \ {"mac_via"}
    /\ adb_poll_timer' = adb_poll_next(now)
    /\ VBL_timer' = VBL_next(now)
    /\ one_second_timer' = one_second_next(now)
    /\ UNCHANGED <<irq_vars, env_vars, via1_vars, via2_vars, rtc_vars, tick_offset, now,
                   shutdown_requests, adb_call>>

\* the input clock of the chips' timers, in Hz
VIA_TIMER_FREQ == 783360

\* mos6522_reset, the parent reset: b, dirb, sr, acr of the generic chip
mos6522_reset_dirb == 255
mos6522_reset_ifr == 0

\* mos6522_q800_via1_reset taking a snapshot of the port B it leaves
mos6522_q800_via1_reset_snapshot ==
    /\ last_op' = "mos6522_q800_via1_reset"
    /\ "via1" \in reset_pending
    /\ reset_pending' = reset_pending \ {"via1"}
    /\ via1_dirb' = mos6522_reset_dirb
    /\ via1_sr' = 0
    /\ via1_acr' = 0
    /\ via1_b' = VIA1B_vADB_StateMask + VIA1B_vADBInt + VIA1B_vRTCEnb
    /\ last_b' = via1_b'
    /\ via1_ifr' = mos6522_reset_ifr
    /\ via1_frequency' = << VIA_TIMER_FREQ, VIA_TIMER_FREQ >>
    /\ UNCHANGED <<via2_ifr, irq_call, adb_input, bus_access, host_time_ok,
                   realized, errp, via2_frequency, via2_vars,
                   rtc_vars, timer_vars, tick_offset, now,
                   shutdown_requests, adb_call>>

mos6522_q800_via1_reset ==
    /\ last_op' = "mos6522_q800_via1_reset"
    /\ "via1" \in reset_pending
    /\ reset_pending' = reset_pending \ {"via1"}
    /\ via1_dirb' = mos6522_reset_dirb
    /\ via1_sr' = 0
    /\ via1_acr' = 0
    /\ via1_b' = VIA1B_vADB_StateMask + VIA1B_vADBInt + VIA1B_vRTCEnb
    /\ via1_ifr' = mos6522_reset_ifr
    /\ via1_frequency' = << VIA_TIMER_FREQ, VIA_TIMER_FREQ >>
    /\ UNCHANGED <<via2_ifr, irq_call, adb_input, bus_access, host_time_ok,
                   realized, errp, via2_frequency, last_b, via2_vars,
                   rtc_vars, timer_vars, tick_offset, now,
                   shutdown_requests, adb_call>>

\* mos6522_q800_via2_reset stopping after the parent reset and the timers
mos6522_q800_via2_reset_parent_only ==
    /\ last_op' = "mos6522_q800_via2_reset"
    /\ "via2" \in reset_pending
    /\ reset_pending' = reset_pending \ {"via2"}
    /\ via2_dirb' = mos6522_reset_dirb
    /\ via2_b' = 0
    /\ via2_ifr' = mos6522_reset_ifr
    /\ via2_frequency' = << VIA_TIMER_FREQ, VIA_TIMER_FREQ >>
    /\ UNCHANGED <<via1_ifr, irq_call, adb_input, bus_access, host_time_ok,
                   realized, errp, via1_frequency, via2_prev_b, via1_vars,
                   rtc_vars, timer_vars, tick_offset, now,
                   shutdown_requests, adb_call>>

mos6522_q800_via2_reset ==
    /\ last_op' = "mos6522_q800_via2_reset"
    /\ "via2" \in reset_pending
    /\ reset_pending' = reset_pending \ {"via2"}
    /\ via2_dirb' = 0
    /\ via2_b' = 0
    /\ via2_ifr' = mos6522_reset_ifr
    /\ via2_frequency' = << VIA_TIMER_FREQ, VIA_TIMER_FREQ >>
    /\ UNCHANGED <<via1_ifr, irq_call, adb_input, bus_access, host_time_ok,
                   realized, errp, via1_frequency, via2_prev_b, via1_vars,
                   rtc_vars, timer_vars, tick_offset, now,
                   shutdown_requests, adb_call>>

(* ------------------------------------------------------------------ *)
(* Guest register writes and the virtual clock                          *)
(* ------------------------------------------------------------------ *)

\* a write of val to VIA1 register B; the transport answers ret and rx
Via1WriteB(val, ret, rx) ==
    /\ last_op' = "via1_portB_write"
    /\ Running
    /\ \E r \in {mos6522_q800_via1_portB_write(
                     [M EXCEPT !.b = mos6522_write_B(via1_b, via1_dirb, val)],
                     tick_offset, now, ret, rx)} : Store(r)
    /\ UNCHANGED <<irq_vars, env_vars, via2_vars, timer_vars, tick_offset, now, reset_pending,
                   shutdown_requests>>

\* a write of val to VIA1 register DIRB
Via1WriteDirB(val) ==
    /\ last_op' = "via1_write"
    /\ Running
    /\ via1_dirb' = val
    /\ UNCHANGED <<irq_vars, env_vars, via1_b, via1_acr, via1_sr, last_b, via2_vars, rtc_vars,
                   timer_vars, tick_offset, now, reset_pending,
                   shutdown_requests, adb_call>>

\* a write of val to VIA1 register ACR
Via1WriteACR(val) ==
    /\ last_op' = "via1_write"
    /\ Running
    /\ via1_acr' = val
    /\ UNCHANGED <<irq_vars, env_vars, via1_b, via1_dirb, via1_sr, last_b, via2_vars, rtc_vars,
                   timer_vars, tick_offset, now, reset_pending,
                   shutdown_requests, adb_call>>

\* a write of val to VIA1 register SR
Via1WriteSR(val) ==
    /\ last_op' = "via1_write"
    /\ Running
    /\ via1_sr' = val
    /\ UNCHANGED <<irq_vars, env_vars, via1_b, via1_dirb, via1_acr, last_b, via2_vars, rtc_vars,
                   timer_vars, tick_offset, now, reset_pending,
                   shutdown_requests, adb_call>>

\* a write of val to VIA2 register B, then mos6522_q800_via2_portB_write
Via2WriteB(val) ==
    /\ last_op' = "via2_portB_write"
    /\ Running
    /\ LET nb == mos6522_write_B(via2_b, via2_dirb, val)
       IN /\ via2_b' = nb
          /\ via2_prev_b' = via2_b
          /\ IF via2_power_off(via2_dirb, nb)
             THEN /\ shutdown_requests < MaxShutdown
                  /\ shutdown_requests' = shutdown_requests + 1
             ELSE UNCHANGED shutdown_requests
    /\ UNCHANGED <<irq_vars, env_vars, via2_dirb, via1_vars, rtc_vars, timer_vars, tick_offset,
                   now, reset_pending, adb_call>>

\* a write of val to VIA2 register DIRB
Via2WriteDirB(val) ==
    /\ last_op' = "via2_write"
    /\ Running
    /\ via2_dirb' = val
    /\ UNCHANGED <<irq_vars, env_vars, via2_b, via2_prev_b, via1_vars, rtc_vars, timer_vars, tick_offset, now,
                   reset_pending, shutdown_requests, adb_call>>

\* the virtual clock moves on to t
AdvanceClock(t) ==
    /\ last_op' = "clock"
    /\ t > now
    /\ now' = t
    /\ UNCHANGED <<irq_vars, env_vars, via1_vars, via2_vars, rtc_vars, timer_vars, tick_offset,
                   reset_pending, shutdown_requests, adb_call>>

\* the guest clocks out only bytes of Bytes: a write that shifts a bit into
\* data_out keeps data_out a leading part of one of them
GuestSends(val, Bytes) ==
    LET nb == mos6522_write_B(via1_b, via1_dirb, val)
        m1 == RtcSendBit([M EXCEPT !.b = nb])
    IN (/\ BitAnd(nb, VIA1B_vRTCEnb) = 0
        /\ BitAnd(via1_dirb, VIA1B_vRTCData) # 0
        /\ m1.data_out_cnt # data_out_cnt)
       => \E y \in Bytes : Shr(y, 8 - m1.data_out_cnt) = m1.data_out

\* the reset handlers of the three devices, in any order
DeviceReset ==
    \/ mac_via_reset
    \/ mos6522_q800_via1_reset
    \/ mos6522_q800_via2_reset

(* ------------------------------------------------------------------ *)
(* Named interrupt lines and the periodic alarms                        *)
(* ------------------------------------------------------------------ *)
VIA1_IRQ_ONE_SECOND == 1
VIA1_IRQ_VBLANK == 2
\* the lines qdev_init_gpio_in_named registers for each chip
VIA1_IRQ_NB == 8
VIA2_IRQ_NB == 8

\* mdc->update_irq(s): the call the chip engine receives, with the flags
\* it finds in s->ifr
update_irq(chip, ifr) ==
    [chip |-> chip, ifr |-> ifr, parity |-> 1 - irq_call.parity]

\* irq_request_ifr storing the bit of the line over the whole register
irq_request_ifr_clobber(ifr, irq, level) ==
    IF level # 0 THEN (2 ^ irq) % 256 ELSE 0

\* s->ifr |= 1 << irq, or s->ifr &= ~(1 << irq), on the 8-bit register
irq_request_ifr(ifr, irq, level) ==
    IF level # 0 THEN BitOr(ifr, (2 ^ irq) % 256)
    ELSE BitClear(ifr, (2 ^ irq) % 256)

via1_irq_request(irq, level) ==
    /\ last_op' = "via1_irq_request"
    /\ via1_ifr' = irq_request_ifr(via1_ifr, irq, level)
    /\ irq_call' = update_irq("via1", via1_ifr')
    /\ UNCHANGED <<via2_ifr, env_vars, via1_vars, via2_vars, rtc_vars,
                   timer_vars, tick_offset, now, reset_pending,
                   shutdown_requests, adb_call>>

via2_irq_request(irq, level) ==
    /\ last_op' = "via2_irq_request"
    /\ via2_ifr' = irq_request_ifr(via2_ifr, irq, level)
    /\ irq_call' = update_irq("via2", via2_ifr')
    /\ UNCHANGED <<via1_ifr, env_vars, via1_vars, via2_vars, rtc_vars,
                   timer_vars, tick_offset, now, reset_pending,
                   shutdown_requests, adb_call>>

\* via1_VBL_ifr assigning the flag instead of or-ing it in
via1_VBL_ifr_assign(ifr) == VIA1_IRQ_VBLANK

\* s->ifr |= VIA1_IRQ_VBLANK
via1_VBL_ifr(ifr) == BitOr(ifr, VIA1_IRQ_VBLANK)

\* via1_one_second_ifr posting no flag
via1_one_second_ifr_kept(ifr) == ifr

\* s->ifr |= VIA1_IRQ_ONE_SECOND
via1_one_second_ifr(ifr) == BitOr(ifr, VIA1_IRQ_ONE_SECOND)

\* a timer calls back once the virtual clock has reached its deadline
VBL_due == VBL_timer # NotArmed /\ VBL_timer <= now
one_second_due ==
    one_second_timer # NotArmed /\ one_second_timer <= now \div SCALE_MS
adb_poll_due == adb_poll_timer # NotArmed /\ adb_poll_timer <= now

\* via1_VBL without the timer_mod: the alarm fires once
via1_VBL_once ==
    /\ last_op' = "via1_VBL"
    /\ VBL_due
    /\ via1_ifr' = via1_VBL_ifr(via1_ifr)
    /\ irq_call' = update_irq("via1", via1_ifr')
    /\ VBL_timer' = NotArmed
    /\ UNCHANGED <<via2_ifr, env_vars, via1_vars, via2_vars, rtc_vars,
                   one_second_timer, adb_poll_timer, tick_offset, now,
                   reset_pending, shutdown_requests, adb_call>>

via1_VBL ==
    /\ last_op' = "via1_VBL"
    /\ VBL_due
    /\ via1_ifr' = via1_VBL_ifr(via1_ifr)
    /\ irq_call' = update_irq("via1", via1_ifr')
    /\ VBL_timer' = VBL_next(now)
    /\ UNCHANGED <<via2_ifr, env_vars, via1_vars, via2_vars, rtc_vars,
                   one_second_timer, adb_poll_timer, tick_offset, now,
                   reset_pending, shutdown_requests, adb_call>>

via1_one_second ==
    /\ last_op' = "via1_one_second"
    /\ one_second_due
    /\ via1_ifr' = via1_one_second_ifr(via1_ifr)
    /\ irq_call' = update_irq("via1", via1_ifr')
    /\ one_second_timer' = one_second_next(now)
    /\ UNCHANGED <<via2_ifr, env_vars, via1_vars, via2_vars, rtc_vars,
                   VBL_timer, adb_poll_timer, tick_offset, now,
                   reset_pending, shutdown_requests, adb_call>>

\* adb_via_poll(&m->adb_bus, state, &s->sr): the transport reports the input
\* it holds, 0 when it holds none
adb_via_poll(input) == IF input THEN 1 ELSE 0

\* via_adb_poll_b raising the status bit again when there is nothing to
\* report
via_adb_poll_b_rearming(bv, polled) ==
    IF BitAnd(bv, VIA1B_vADBInt) # 0 /\ polled # 0
    THEN BitClear(bv, VIA1B_vADBInt)
    ELSE BitOr(bv, VIA1B_vADBInt)

\* via_adb_poll_b clearing the status bit only when it is clear already
via_adb_poll_b_inverted(bv, polled) ==
    IF BitAnd(bv, VIA1B_vADBInt) = 0 /\ polled # 0
    THEN BitClear(bv, VIA1B_vADBInt)
    ELSE bv

\* port B after via_adb_poll: the status bit is cleared when it was set and
\* the poll reported data; polled is 0 when no poll was made
via_adb_poll_b(bv, polled) ==
    IF BitAnd(bv, VIA1B_vADBInt) # 0 /\ polled # 0
    THEN BitClear(bv, VIA1B_vADBInt)
    ELSE bv

\* the shift register after via_adb_poll: a poll that reports data leaves
\* its first byte there
via_adb_poll_sr(srv, bv, polled, rx) ==
    IF BitAnd(bv, VIA1B_vADBInt) # 0 /\ polled # 0
    THEN AdbReceived(srv, rx)
    ELSE srv

\* the poll alarm fires; rx is the byte a reporting poll stores
via_adb_poll(rx) ==
    /\ last_op' = "via_adb_poll"
    /\ adb_poll_due
    /\ LET asked == BitAnd(via1_b, VIA1B_vADBInt) # 0
           polled == IF asked THEN adb_via_poll(adb_input) ELSE 0
       IN /\ via1_b' = via_adb_poll_b(via1_b, polled)
          /\ via1_sr' = via_adb_poll_sr(via1_sr, via1_b, polled, rx)
          /\ adb_input' = (adb_input /\ polled = 0)
          /\ adb_call' = IF asked
                         THEN [op |-> "poll", state |-> AdbState(via1_b),
                               ret |-> polled]
                         ELSE adb_call
    /\ adb_poll_timer' = adb_poll_next(now)
    /\ UNCHANGED <<irq_vars, bus_access, host_time_ok, realized, errp, freq_vars,
                   via1_dirb, via1_acr, last_b, via2_vars, rtc_vars,
                   VBL_timer, one_second_timer, tick_offset, now,
                   reset_pending, shutdown_requests>>

\* an attached ADB device has input for the host
AdbInputArrives ==
    /\ last_op' = "adb_input"
    /\ ~adb_input
    /\ adb_input' = TRUE
    /\ UNCHANGED <<irq_vars, bus_access, host_time_ok, realized, errp, freq_vars,
                   via1_vars, via2_vars, rtc_vars, timer_vars, tick_offset,
                   now, reset_pending, shutdown_requests, adb_call>>

(* ------------------------------------------------------------------ *)
(* The register windows of the two chips                                *)
(* ------------------------------------------------------------------ *)
VIA_SIZE == 8192
vBufB == 0
vDirB == 1024
vSR == 5120
vACR == 5632

\* via_reg shifting by 8: 256-byte register strides
via_reg_stride256(addr) == BitAnd(Shr(addr, 8) % 256, 15)

\* addr = (addr >> 9) & 0xf
via_reg(addr) == BitAnd(Shr(addr, 9) % 256, 15)

\* mos6522_write(ms, reg, val, size) on VIA1, for the registers of the model
mos6522_write_via1(m, reg, val, ret, rx) ==
    IF reg = via_reg(vBufB)
    THEN mos6522_q800_via1_portB_write(
             [m EXCEPT !.b = mos6522_write_B(m.b, m.dirb, val)],
             tick_offset, now, ret, rx)
    ELSE IF reg = via_reg(vDirB) THEN [m EXCEPT !.dirb = val]
    ELSE IF reg = via_reg(vSR) THEN [m EXCEPT !.sr = val]
    ELSE IF reg = via_reg(vACR) THEN [m EXCEPT !.acr = val]
    ELSE m

\* mos6522_read(ms, reg, size) on VIA1, for the registers of the model
mos6522_read_via1(reg) ==
    IF reg = via_reg(vBufB) THEN via1_b
    ELSE IF reg = via_reg(vDirB) THEN via1_dirb
    ELSE IF reg = via_reg(vSR) THEN via1_sr
    ELSE IF reg = via_reg(vACR) THEN via1_acr
    ELSE 0

\* mos6522_read(ms, reg, size) on VIA2, for the registers of the model
mos6522_read_via2(reg) ==
    IF reg = via_reg(vBufB) THEN via2_b
    ELSE IF reg = via_reg(vDirB) THEN via2_dirb
    ELSE 0

\* the call mos6522_read or mos6522_write receives
Access(chip, kind, reg, val, size) ==
    [chip |-> chip, kind |-> kind, reg |-> reg, val |-> val, size |-> size]

mos6522_q800_via1_read(addr, size) ==
    /\ last_op' = "mos6522_q800_via1_read"
    /\ Running
    /\ bus_access' = Access("via1", "read", via_reg(addr),
                            mos6522_read_via1(via_reg(addr)), size)
    /\ UNCHANGED <<irq_vars, adb_input, host_time_ok, realized, errp, freq_vars,
                   via1_vars, via2_vars, rtc_vars, timer_vars, tick_offset,
                   now, reset_pending, shutdown_requests, adb_call>>

mos6522_q800_via1_write(addr, val, size, ret, rx) ==
    /\ last_op' = "mos6522_q800_via1_write"
    /\ Running
    /\ bus_access' = Access("via1", "write", via_reg(addr), val, size)
    /\ \E r \in {mos6522_write_via1(M, via_reg(addr), val, ret, rx)} :
          Store(r)
    /\ UNCHANGED <<irq_vars, adb_input, host_time_ok, realized, errp, freq_vars,
                   via2_vars, timer_vars, tick_offset, now, reset_pending,
                   shutdown_requests>>

mos6522_q800_via2_read(addr, size) ==
    /\ last_op' = "mos6522_q800_via2_read"
    /\ Running
    /\ bus_access' = Access("via2", "read", via_reg(addr),
                            mos6522_read_via2(via_reg(addr)), size)
    /\ UNCHANGED <<irq_vars, adb_input, host_time_ok, realized, errp, freq_vars,
                   via1_vars, via2_vars, rtc_vars, timer_vars, tick_offset,
                   now, reset_pending, shutdown_requests, adb_call>>

mos6522_q800_via2_write(addr, val, size) ==
    /\ last_op' = "mos6522_q800_via2_write"
    /\ Running
    /\ bus_access' = Access("via2", "write", via_reg(addr), val, size)
    /\ LET reg == via_reg(addr)
           nb == mos6522_write_B(via2_b, via2_dirb, val)
       IN IF reg = via_reg(vBufB)
          THEN /\ via2_b' = nb
               /\ via2_prev_b' = via2_b
               /\ via2_dirb' = via2_dirb
               /\ IF via2_power_off(via2_dirb, nb)
                  THEN /\ shutdown_requests < MaxShutdown
                       /\ shutdown_requests' = shutdown_requests + 1
                  ELSE UNCHANGED shutdown_requests
          ELSE /\ via2_dirb' = IF reg = via_reg(vDirB) THEN val ELSE via2_dirb
               /\ UNCHANGED <<via2_b, via2_prev_b, shutdown_requests>>
    /\ UNCHANGED <<irq_vars, adb_input, host_time_ok, realized, errp, freq_vars,
                   via1_vars, rtc_vars, timer_vars, tick_offset, now,
                   reset_pending, adb_call>>

(* ------------------------------------------------------------------ *)
(* The RTC seconds and PRAM reads, with a silent ADB bus                *)
(* ------------------------------------------------------------------ *)
ReadBytes == {129, 133, 137, 141}
ClockTimes == {k * NANOSECONDS_PER_SECOND : k \in 0 .. MaxSeconds}

NextRead ==
    \/ DeviceReset
    \/ \E val \in 0 .. 3 :
          GuestSends(val, ReadBytes) /\ Via1WriteB(val, 0, NoData)
    \/ \E val \in {6, 7} : data_out_cnt = 0 /\ Via1WriteDirB(val)
    \/ \E t \in ClockTimes : AdvanceClock(t)

SpecRead == Init /\ [][NextRead]_vars

(* ------------------------------------------------------------------ *)
(* The PRAM and write-protect commands, data line kept as output        *)
(* ------------------------------------------------------------------ *)
PramBytes == {185, 173, 90, 53}

NextPram ==
    \/ DeviceReset
    \/ \E val \in 0 .. 3 :
          GuestSends(val, PramBytes) /\ Via1WriteB(val, 0, NoData)

SpecPram == Init /\ [][NextPram]_vars

(* ------------------------------------------------------------------ *)
(* The ADB host protocol, RTC disabled                                  *)
(* ------------------------------------------------------------------ *)
\* port B values with the RTC disabled, one for each ADB state
AdbVals == {VIA1B_vRTCEnb + st * VIA1B_vADBS1 : st \in 0 .. 3}
\* results of adb_send and adb_receive
AdbResults == {-1, 0, 1}
\* bytes a receive leaves in the shift register
AdbBytes == {NoData, 44, 255}

NextAdb ==
    \/ DeviceReset
    \/ \E val \in AdbVals, ret \in AdbResults, rx \in AdbBytes :
          Via1WriteB(val, ret, rx)
    \/ \E val \in {0, VIA1ACR_vShiftOut} : Via1WriteACR(val)
    \/ \E val \in {44, 255} : Via1WriteSR(val)

SpecAdb == Init /\ [][NextAdb]_vars

(* ------------------------------------------------------------------ *)
(* The whole device: both chips, the clock and system resets            *)
(* ------------------------------------------------------------------ *)
NextDevice ==
    \/ qemu_system_reset
    \/ DeviceReset
    \/ \E val \in {VIA1B_vRTCEnb, VIA1B_vRTCEnb + VIA1B_vRTCClk} :
          Via1WriteB(val, 0, NoData)
    \/ \E val \in {7} : Via1WriteDirB(val)
    \/ \E val \in {VIA1ACR_vShiftOut} : Via1WriteACR(val)
    \/ \E val \in {255} : Via1WriteSR(val)
    \/ \E val \in {0, VIA2B_vPower} : Via2WriteB(val)
    \/ \E val \in {0, VIA2B_vPower} : Via2WriteDirB(val)
    \/ \E t \in ClockTimes : AdvanceClock(t)

Spec == InitWith({U32(4660, 22136)}) /\ [][NextDevice]_vars

(* ------------------------------------------------------------------ *)
(* Guest accesses to the two register windows                           *)
(* ------------------------------------------------------------------ *)
\* byte offsets into a chip's window: first, inner and last bytes of strides
BusOffsets == {vBufB, 511, 512, vDirB, vDirB + 1, VIA_SIZE - 1}
BusVals == {0, 255}
\* .valid.min_access_size = .valid.max_access_size = 1
BusSizes == {1}

NextBus ==
    \/ DeviceReset
    \/ \E o \in BusOffsets, sz \in BusSizes : mos6522_q800_via1_read(o, sz)
    \/ \E o \in BusOffsets, v \in BusVals, sz \in BusSizes :
          mos6522_q800_via1_write(o, v, sz, 0, NoData)
    \/ \E o \in BusOffsets, sz \in BusSizes : mos6522_q800_via2_read(o, sz)
    \/ \E o \in BusOffsets, v \in BusVals, sz \in BusSizes :
          mos6522_q800_via2_write(o, v, sz)

SpecBus == InitWith({U32(4660, 22136)}) /\ [][NextBus]_vars

(* ------------------------------------------------------------------ *)
(* The RTC engine with the enable line under the guest's control        *)
(* ------------------------------------------------------------------ *)
\* a seconds read, a byte no rule decodes, a command no rule decodes, the
\* write-protect command
GateBytes == {129, 255, 2, 53}

NextGate ==
    \/ DeviceReset
    \/ \E val \in 0 .. 7 :
          GuestSends(val, GateBytes) /\ Via1WriteB(val, 0, NoData)

SpecGate == InitWith({U32(4660, 22136)}) /\ [][NextGate]_vars

(* ------------------------------------------------------------------ *)
(* The named interrupt lines of the two chips                           *)
(* ------------------------------------------------------------------ *)
\* the first line, an inner line and the last line of a chip
IrqLines == {0, 3, VIA1_IRQ_NB - 1}
IrqLevels == {0, 1}

NextIrq ==
    \/ qemu_system_reset
    \/ DeviceReset
    \/ \E n \in IrqLines, level \in IrqLevels : via1_irq_request(n, level)
    \/ \E n \in IrqLines, level \in IrqLevels : via2_irq_request(n, level)

SpecIrq == InitWith({U32(4660, 22136)}) /\ [][NextIrq]_vars

(* ------------------------------------------------------------------ *)
(* The periodic alarms, from a creation that may lack the host time     *)
(* ------------------------------------------------------------------ *)
\* virtual times on and off the multiples of the alarm periods
AlarmTimes ==
    {0, VBL_PERIOD, 20000, 2 * VBL_PERIOD,
     NANOSECONDS_PER_SECOND \div VIA_ADB_POLL_FREQ} \cup ClockTimes
\* bytes the first byte of polled input may be
PollBytes == {NoData, 44}

NextAlarm ==
    \/ qemu_system_reset
    \/ DeviceReset
    \/ \E t \in AlarmTimes : AdvanceClock(t)
    \/ via1_VBL
    \/ via1_one_second
    \/ \E rx \in PollBytes : via_adb_poll(rx)
    \/ AdbInputArrives

SpecAlarm == InitFrom({U32(4660, 22136)}, BOOLEAN) /\ [][NextAlarm]_vars

(* ------------------------------------------------------------------ *)
(* The ADB poll alarm under the timer scheduler                         *)
(* ------------------------------------------------------------------ *)
\* the virtual clock moves in poll periods
PollTimes ==
    {k * (NANOSECONDS_PER_SECOND \div VIA_ADB_POLL_FREQ) : k \in 0 .. MaxPolls}
LastPollTime == MaxPolls * (NANOSECONDS_PER_SECOND \div VIA_ADB_POLL_FREQ)

PollAlarm == \E rx \in PollBytes : via_adb_poll(rx)
PollClock == \E t \in PollTimes : AdvanceClock(t)

NextPoll ==
    \/ DeviceReset
    \/ PollClock
    \/ PollAlarm
    \/ AdbInputArrives
    \/ \E ret \in {0, 1} : Via1WriteB(VIA1B_vRTCEnb, ret, NoData)

\* the main loop lets virtual time pass and runs every timer that is due
SpecPoll ==
    /\ InitWith({U32(4660, 22136)})
    /\ [][NextPoll]_vars
    /\ WF_vars(PollClock)
    /\ WF_vars(PollAlarm)

(* ------------------------------------------------------------------ *)
(* Latched commands across alarms, interrupt lines and resets           *)
(* ------------------------------------------------------------------ *)
\* the write-protect command, a seconds read, an extended command
LatchBytes == {53, 129, 184}
\* port B values: clock low, clock high with the data line low and high
LatchVals == {0, VIA1B_vRTCClk, VIA1B_vRTCClk + VIA1B_vRTCData}

\* the alarms, the interrupt line and the resets arrive between two bytes
BetweenBytes == data_out_cnt = 0
\* the main loop runs an expired timer before the guest's next instruction
NoneDue == ~VBL_due /\ ~one_second_due /\ ~adb_poll_due
\* the virtual clock is seen at power-on and one second later
LatchTimes == {NANOSECONDS_PER_SECOND}

NextLatch ==
    \/ BetweenBytes /\ NoneDue /\ qemu_system_reset
    \/ DeviceReset
    \/ \E val \in LatchVals :
          NoneDue /\ GuestSends(val, LatchBytes) /\ Via1WriteB(val, 0, NoData)
    \/ \E t \in LatchTimes : BetweenBytes /\ NoneDue /\ AdvanceClock(t)
    \/ via1_VBL
    \/ via1_one_second
    \/ via_adb_poll(NoData)

SpecLatch == InitWith({U32(4660, 22136)}) /\ [][NextLatch]_vars

(* ------------------------------------------------------------------ *)
(* The three alarms under the timer scheduler, with system resets       *)
(* ------------------------------------------------------------------ *)
\* the last virtual time the clock is followed to
LastSecond == MaxSeconds * NANOSECONDS_PER_SECOND

\* virtual time passes while the guest runs
TickClock == \E t \in ClockTimes : Running /\ AdvanceClock(t)
TickPoll == \E rx \in PollBytes : via_adb_poll(rx)
\* a system reset is taken up once the expired timers have run
TickReset == NoneDue /\ qemu_system_reset

NextTick ==
    \/ TickReset
    \/ DeviceReset
    \/ TickClock
    \/ via1_VBL
    \/ via1_one_second
    \/ TickPoll
    \/ AdbInputArrives

\* a system reset runs every reset handler, virtual time keeps advancing
\* between resets, and the main loop runs every timer that is due
SpecTick ==
    /\ InitWith({U32(4660, 22136)})
    /\ [][NextTick]_vars
    /\ WF_vars(DeviceReset)
    /\ SF_vars(TickClock)
    /\ WF_vars(via1_VBL)
    /\ WF_vars(via1_one_second)
    /\ WF_vars(TickPoll)

(* ------------------------------------------------------------------ *)
(* Port B writes that reach both engines                                *)
(* ------------------------------------------------------------------ *)
\* the guest reads seconds register 0
WriteBytes == {129}
\* the enable, clock and data bits of the RTC in every combination
WriteVals == 0 .. (VIA1B_vRTCEnb + VIA1B_vRTCClk + VIA1B_vRTCData)
\* the transport fails or succeeds
WriteResults == {0, 1}

NextWrite ==
    \/ DeviceReset
    \/ \E val \in WriteVals, ret \in WriteResults :
          GuestSends(val, WriteBytes) /\ Via1WriteB(val, ret, NoData)
    \/ \E val \in {6, 7} : data_out_cnt = 0 /\ Via1WriteDirB(val)
    \/ \E val \in {0, VIA1ACR_vShiftOut} : Via1WriteACR(val)

SpecWrite == InitWith({U32(4660, 22136)}) /\ [][NextWrite]_vars

(* ------------------------------------------------------------------ *)
(* The port B snapshot among resets, alarms and interrupt lines         *)
(* ------------------------------------------------------------------ *)
NextSnap ==
    \/ BetweenBytes /\ NoneDue /\ qemu_system_reset
    \/ DeviceReset
    \/ \E val \in LatchVals, ret \in WriteResults :
          NoneDue /\ GuestSends(val, WriteBytes) /\ Via1WriteB(val, ret, NoData)
    \/ \E t \in LatchTimes : BetweenBytes /\ NoneDue /\ AdvanceClock(t)
    \/ via1_VBL
    \/ via1_one_second
    \/ TickPoll
    \/ BetweenBytes /\ AdbInputArrives
    \/ \E level \in IrqLevels :
          BetweenBytes /\ NoneDue /\ via1_irq_request(0, level)

SpecSnap == InitWith({U32(4660, 22136)}) /\ [][NextSnap]_vars

(* ------------------------------------------------------------------ *)
(* PRAM write commands across alarms, interrupt lines and resets        *)
(* ------------------------------------------------------------------ *)
\* the guest's write commands for PRAM entry 0x10 and for extended sector 0;
\* either serves as the data byte
StoreBytes == {33, 56}

NextStore ==
    \/ BetweenBytes /\ NoneDue /\ qemu_system_reset
    \/ DeviceReset
    \/ \E val \in LatchVals :
          NoneDue /\ GuestSends(val, StoreBytes) /\ Via1WriteB(val, 0, NoData)
    \/ \E t \in LatchTimes : BetweenBytes /\ NoneDue /\ AdvanceClock(t)
    \/ via1_VBL
    \/ via1_one_second
    \/ via_adb_poll(NoData)
    \/ \E level \in IrqLevels :
          BetweenBytes /\ NoneDue /\ via1_irq_request(0, level)

SpecStore == InitWith({U32(4660, 22136)}) /\ [][NextStore]_vars

(* ------------------------------------------------------------------ *)
(* Properties of the seconds registers                                  *)
(* ------------------------------------------------------------------ *)

\* this step interprets a completed byte
ByteDone == data_out_cnt = 7 /\ data_out_cnt' = 0

\* the byte such a step completes: seven bits of data_out, then port B bit 0
DoneByte == 2 * data_out + (via1_b' % 2)

\* the four bytes of a uint32_t, least significant first
Digits(w) == << w.lo % 256, w.lo \div 256, w.hi % 256, w.hi \div 256 >>

\* (tick_offset + floor(clock_ns / 10^9)) mod 2^32 at the current clock
SecondsNow == Add32(tick_offset, now \div NANOSECONDS_PER_SECOND)

\* bit 7 - (i - 1) of byte v: the i-th bit of v, most significant first
MsbBit(v, i) == (v \div (2 ^ (8 - i))) % 2

\* C1, staging: with no command latched, the step that completes the byte
\* 0x81 loads data_in with the low byte of tick_offset + seconds and sets
\* data_in_cnt to 8.
C1_Staged ==
    (ByteDone /\ cmd = 0 /\ xfer' = << 129 >>)
        => /\ data_in' = Digits(SecondsNow)[1]
           /\ data_in_cnt' = 8
           /\ rtc_staged' = data_in'
           /\ rtc_presented' = << >>

\* C1, emission: a step that presents a bit leaves that bit on port B bit 0.
C1_Driven ==
    (Len(rtc_presented') = Len(rtc_presented) + 1)
        => via1_b' % 2 = rtc_presented'[Len(rtc_presented')]

\* C1, emission: the bits presented since a byte was staged are its leading
\* bits, most significant first, and eight of them empty data_in_cnt.
C1_MsbFirst ==
    /\ \A i \in 1 .. Len(rtc_presented) :
           rtc_presented[i] = MsbBit(rtc_staged, i)
    /\ (data_in_cnt > 0 \/ rtc_presented # << >>)
           => Len(rtc_presented) + data_in_cnt = 8

\* C1: clocking in 0x81 with no command latched stages the low byte of
\* tick_offset + seconds with data_in_cnt = 8, and the falling clock edges
\* that follow present exactly that byte on port B bit 0, most significant
\* bit first.
C1_SecondsReadEndToEnd ==
    /\ [][C1_Staged /\ C1_Driven]_vars
    /\ []C1_MsbFirst

\* C1 witness: 0x81 was clocked in at tick_offset 0x12345678 and all eight
\* bits of the response 0x78 have been presented.
C1_Witness ==
    /\ xfer = << 129 >>
    /\ tick_offset = U32(4660, 22136)
    /\ rtc_staged = 120
    /\ Len(rtc_presented) = 8
    /\ data_in_cnt = 0

\* C2: with no command latched, the bytes staged by 0x81, 0x85, 0x89, 0x8D
\* are bytes 0, 1, 2, 3 (least significant first) of
\* (tick_offset + seconds) mod 2^32.
C2_SecondsRoundTrip ==
    [][\A r \in 0 .. 3 :
         (ByteDone /\ cmd = 0 /\ xfer' = << 129 + 4 * r >>)
             => /\ data_in' = Digits(SecondsNow)[r + 1]
                /\ data_in_cnt' = 8]_vars

\* C2 witness: seconds register 0 was read one second after creation with
\* tick_offset 0xFFFFFFFF, where the 32-bit sum wraps to 0.
C2_Witness ==
    /\ xfer = << 129 >> /\ tick_offset = U32(65535, 65535)
    /\ now = NANOSECONDS_PER_SECOND
    /\ data_in_cnt = 8 /\ data_in = 0 /\ rtc_staged = 0

(* ------------------------------------------------------------------ *)
(* Properties of the PRAM and write-protect commands                    *)
(* ------------------------------------------------------------------ *)

\* C3: a 0xB8-pattern command byte (sector s), an alt byte and a data byte d,
\* sent with no command latched and write-protect off, store d at
\* PRAM[s * 8 + ((alt >> 2) & 0x1F)] and leave alt = 0.
C3_ExtendedWrite ==
    (Len(xfer) = 3 /\ BitAnd(xfer[1], 248) = 184 /\ wprotect = 0)
        => /\ PramGet(PRAM, (xfer[1] % 8) * 8 + ((xfer[2] \div 4) % 32))
                  = xfer[3]
           /\ alt = 0

C5_Unprotect ==
    [][(ByteDone /\ wprotect # 0 /\ cmd = 53 /\ DoneByte % 2 = 0)
          => wprotect' = 0]_vars

\* C6: a byte that completes while a command is latched leaves cmd = 0.
C6_TransactionEnds == [][(ByteDone /\ cmd # 0) => cmd' = 0]_vars

PowerBit(v) == BitAnd(v, VIA2B_vPower) # 0

\* this step is a write to port B of VIA2
Via2PortBStep == last_op' = "via2_portB_write"

\* C8 as stated: with the power bit an output, a port-B write issues one
\* shutdown request when it takes the bit from 1 to 0 and none otherwise,
\* so none when it leaves the bit at 0.
C8_EdgeTriggered ==
    [][(Via2PortBStep /\ PowerBit(via2_dirb))
          => shutdown_requests' = shutdown_requests
                 + (IF PowerBit(via2_b) /\ ~PowerBit(via2_b') THEN 1 ELSE 0)]_vars

\* C8 amended: with the power bit an output, a port-B write issues exactly
\* one shutdown request when it leaves the bit at 0, whether the bit was 1
\* or already 0 before, and none when it leaves the bit at 1.
C8_LevelTriggered ==
    [][(Via2PortBStep /\ PowerBit(via2_dirb))
          => shutdown_requests' = shutdown_requests
                 + (IF ~PowerBit(via2_b') THEN 1 ELSE 0)]_vars

\* C8 witness: a port-B write took the output power bit from 1 to 0 and one
\* shutdown request has been issued.
C8_Witness ==
    /\ last_op = "via2_portB_write"
    /\ PowerBit(via2_dirb)
    /\ PowerBit(via2_prev_b) /\ ~PowerBit(via2_b)
    /\ shutdown_requests = 1

\* C9: a step that issues a shutdown request is a write to port B of VIA2
\* made with the power bit configured as output.
C9_OnlyOutputPortB ==
    [][shutdown_requests' # shutdown_requests
          => Via2PortBStep /\ PowerBit(via2_dirb)]_vars

\* C9 witness: port B of VIA2 was written with the power bit an input and
\* low, and no shutdown request has been issued.
C9_Witness ==
    /\ last_op = "via2_portB_write"
    /\ ~PowerBit(via2_dirb) /\ ~PowerBit(via2_b)
    /\ shutdown_requests = 0

(* ------------------------------------------------------------------ *)
(* Properties of the ADB status bit                                     *)
(* ------------------------------------------------------------------ *)

\* C10: after a write to port B of VIA1, in output mode the status bit 0x08
\* is clear iff the send result is positive; in input mode it is clear iff
\* the receive result is positive and the shift register is not 0xFF.
C10_AdbStatusBit ==
    [][last_op' = "via1_portB_write"
          => LET clear == BitAnd(via1_b', VIA1B_vADBInt) = 0
             IN IF BitAnd(via1_acr, VIA1ACR_vShiftOut) # 0
                THEN /\ adb_call'.op = "send"
                     /\ clear <=> adb_call'.ret > 0
                ELSE /\ adb_call'.op = "receive"
                     /\ clear <=> (adb_call'.ret > 0 /\ via1_sr' # 255)]_vars

\* C10 witness: a receive succeeded but left 0xFF in the shift register, and
\* the status bit is set.
C10_Witness ==
    /\ last_op = "via1_portB_write"
    /\ adb_call.op = "receive" /\ adb_call.ret = 1
    /\ via1_sr = 255
    /\ BitAnd(via1_b, VIA1B_vADBInt) # 0

(* ------------------------------------------------------------------ *)
(* Properties of the ADB poll alarm                                     *)
(* ------------------------------------------------------------------ *)

\* the status bit 0x08 of a VIA1 port B value is set
AdbIntSet(bv) == BitAnd(bv, VIA1B_vADBInt) # 0

\* C11, the poll step: the poll alarm firing with the status bit set and
\* input held by the transport clears the bit, by a poll and nothing else.
C11_PollStep ==
    (last_op' = "via_adb_poll" /\ AdbIntSet(via1_b) /\ adb_input)
        => /\ ~AdbIntSet(via1_b')
           /\ adb_call'.op = "poll" /\ adb_call'.ret > 0
           /\ last_b' = last_b

\* C11: when the poll alarm fires while the status bit 0x08 is set and the
\* transport poll reports data, the bit is cleared without a port-B write;
\* and input that arrives while the bit is set and the poll alarm is still
\* to fire leads to the bit being clear.
C11_PollClears ==
    /\ [][C11_PollStep]_vars
    /\ (/\ AdbIntSet(via1_b) /\ adb_input
        /\ adb_poll_timer # NotArmed /\ adb_poll_timer <= LastPollTime)
           ~> ~AdbIntSet(via1_b)

\* C11 witness: the poll alarm fired, its poll reported data and the
\* status bit is clear.
C11_Witness ==
    /\ last_op = "via_adb_poll"
    /\ adb_call.op = "poll" /\ adb_call.ret = 1
    /\ ~AdbIntSet(via1_b)
    /\ ~adb_input

(* ------------------------------------------------------------------ *)
(* Properties of the alarm deadlines                                    *)
(* ------------------------------------------------------------------ *)

\* this step re-arms the video-blank alarm, the one-second alarm
VBL_rearmed == last_op' \in {"via1_VBL", "mac_via_reset"}
one_second_rearmed == last_op' \in {"via1_one_second", "mac_via_reset"}

\* the virtual time in whole milliseconds
NowMs == now \div SCALE_MS

\* ceil(t / p) * p, the smallest multiple of p that is at least t
CeilMultiple(t, p) == ((t + p - 1) \div p) * p

\* d is the smallest multiple of p strictly greater than t
NextMultiple(d, t, p) == d % p = 0 /\ t < d /\ d <= t + p

\* C12 as stated: re-armed at virtual time t, the video-blank alarm gets the
\* deadline ceil(t / 16630) * 16630 ns and the one-second alarm
\* ceil(t / 1000) * 1000 ms.
C12_SnapCeil ==
    [][/\ VBL_rearmed => VBL_timer' = CeilMultiple(now, VBL_PERIOD)
       /\ one_second_rearmed
            => one_second_timer' = CeilMultiple(NowMs, ONE_SECOND_PERIOD)]_vars

\* C12 amended: re-armed at virtual time t, the video-blank alarm gets the
\* smallest multiple of 16630 ns strictly greater than t, and the one-second
\* alarm the smallest multiple of 1000 ms strictly greater than t in ms.
C12_SnapNext ==
    [][/\ VBL_rearmed => NextMultiple(VBL_timer', now, VBL_PERIOD)
       /\ one_second_rearmed
            => NextMultiple(one_second_timer', NowMs, ONE_SECOND_PERIOD)]_vars

\* C12 witness: the video-blank alarm fired exactly on its deadline, a
\* multiple of the period, and was re-armed one period later.
C12_Witness ==
    /\ last_op = "via1_VBL"
    /\ now = VBL_PERIOD
    /\ VBL_timer = 2 * VBL_PERIOD

(* ------------------------------------------------------------------ *)
(* Properties of the register decode                                    *)
(* ------------------------------------------------------------------ *)

\* (o >> 9) & 0xF
RegisterOf(o) == (o \div 512) % 16

\* offsets of the 8 KiB window that select the same register as o
SameRegister(o) == {o2 \in BusOffsets : RegisterOf(o2) = RegisterOf(o)}

\* C13: an access at offset o of a chip's window reaches the chip engine as
\* an access to register (o >> 9) & 0xF of that chip with the value and the
\* size given, and it is the same step as that access made at any other
\* offset with the same (o >> 9) & 0xF.
C13_RegisterDecode ==
    [][\A o \in BusOffsets, v \in BusVals, sz \in BusSizes :
         /\ mos6522_q800_via1_write(o, v, sz, 0, NoData)
              => /\ bus_access' = Access("via1", "write", RegisterOf(o), v, sz)
                 /\ \A o2 \in SameRegister(o) :
                        mos6522_q800_via1_write(o2, v, sz, 0, NoData)
         /\ mos6522_q800_via2_write(o, v, sz)
              => /\ bus_access' = Access("via2", "write", RegisterOf(o), v, sz)
                 /\ \A o2 \in SameRegister(o) :
                        mos6522_q800_via2_write(o2, v, sz)
         /\ mos6522_q800_via1_read(o, sz)
              => /\ bus_access'.chip = "via1" /\ bus_access'.kind = "read"
                 /\ bus_access'.reg = RegisterOf(o)
                 /\ bus_access'.size = sz
                 /\ \A o2 \in SameRegister(o) : mos6522_q800_via1_read(o2, sz)
         /\ mos6522_q800_via2_read(o, sz)
              => /\ bus_access'.chip = "via2" /\ bus_access'.kind = "read"
                 /\ bus_access'.reg = RegisterOf(o)
                 /\ bus_access'.size = sz
                 /\ \A o2 \in SameRegister(o) : mos6522_q800_via2_read(o2, sz)
      ]_vars

\* C13 witness: a write of 0 at offset 0x401, inside the stride of the
\* direction register of port B, has cleared that register of VIA1.
C13_Witness ==
    /\ last_op = "mos6522_q800_via1_write"
    /\ bus_access = Access("via1", "write", 2, 0, 1)
    /\ via1_dirb = 0

(* ------------------------------------------------------------------ *)
(* Properties of the named interrupt lines                              *)
(* ------------------------------------------------------------------ *)

\* bit k of the register value x
FlagBit(x, k) == (x \div (2 ^ k)) % 2

\* flags new come from flags old by giving bit n the level and nothing else
OnlyLine(new, old, n, level) ==
    \A k \in 0 .. 7 :
        FlagBit(new, k) = IF k = n THEN (IF level # 0 THEN 1 ELSE 0)
                          ELSE FlagBit(old, k)

\* C14: asserting line n of a chip sets exactly bit n of that chip's
\* interrupt flag register and deasserting clears exactly bit n; the other
\* flag bits and the other chip's flags are unchanged, and the chip engine's
\* update_irq is called afterwards, on that chip, with the new flags.
C14_NamedLines ==
    [][\A n \in IrqLines, level \in IrqLevels :
         /\ via1_irq_request(n, level)
              => /\ OnlyLine(via1_ifr', via1_ifr, n, level)
                 /\ via2_ifr' = via2_ifr
                 /\ irq_call'.chip = "via1" /\ irq_call'.ifr = via1_ifr'
                 /\ irq_call'.parity # irq_call.parity
         /\ via2_irq_request(n, level)
              => /\ OnlyLine(via2_ifr', via2_ifr, n, level)
                 /\ via1_ifr' = via1_ifr
                 /\ irq_call'.chip = "via2" /\ irq_call'.ifr = via2_ifr'
                 /\ irq_call'.parity # irq_call.parity]_vars

\* C14 witness: lines 0 and 7 of VIA1 and line 3 of VIA2 are asserted, and
\* the last call was made for VIA1.
C14_Witness ==
    /\ last_op = "via1_irq_request"
    /\ via1_ifr = 129 /\ via2_ifr = 8
    /\ irq_call.chip = "via1" /\ irq_call.ifr = 129

(* ------------------------------------------------------------------ *)
(* Properties of the RTC enable line and of undecoded bytes             *)
(* ------------------------------------------------------------------ *)

\* C15: a write to port B of VIA1 that leaves the RTC enable bit 0x04 set
\* changes none of data_out, data_out_cnt, data_in, data_in_cnt, cmd, alt,
\* wprotect and PRAM, whatever its clock and data bits are.
C15_EnableGate ==
    [][(last_op' = "via1_portB_write" /\ BitAnd(via1_b', VIA1B_vRTCEnb) # 0)
          => UNCHANGED <<data_out, data_out_cnt, data_in, data_in_cnt, cmd,
                         alt, wprotect, PRAM>>]_vars

\* C15 witness: three bits into a byte under the latched command 0x35, a
\* write left port B with the enable, clock and data bits all set.
C15_Witness ==
    /\ last_op = "via1_portB_write"
    /\ BitAnd(via1_b, 7) = 7
    /\ cmd = 53 /\ data_out_cnt = 3

\* a first byte with the high bit set that no read rule decodes
NoReadRule(b) ==
    /\ b >= 128
    /\ b \notin {129, 133, 137, 141}
    /\ BitAnd(b, 243) # 161
    /\ BitAnd(b, 248) # 184

\* a latched command that no write rule decodes
NoWriteRule(c) ==
    /\ c # 0 /\ c < 128
    /\ c \notin {1, 5, 9, 13, 49, 53}

\* C18: a completed byte that no rule decodes, a first byte with the high
\* bit set matching no read pattern or a byte completed under a latched
\* command matching no write rule, resets data_out and data_out_cnt and
\* leaves data_in, data_in_cnt, cmd, alt, wprotect and PRAM as they were,
\* staging no response.
C18_Ignored ==
    [][(/\ ByteDone
        /\ \/ cmd = 0 /\ NoReadRule(DoneByte)
           \/ alt = 0 /\ NoWriteRule(cmd))
          => /\ data_out' = 0 /\ data_out_cnt' = 0
             /\ UNCHANGED <<data_in, data_in_cnt, cmd, alt, wprotect, PRAM,
                            rtc_staged, rtc_presented>>]_vars

\* C18 witness: with the response to 0x81 still staged, the command 0x02
\* was latched and the byte 0x81 completed under it: the staged response
\* is as it was.
C18_Witness ==
    /\ xfer = << 2, 129 >> /\ cmd = 2
    /\ data_in = 120 /\ data_in_cnt = 8
    /\ data_out = 0 /\ data_out_cnt = 0

(* ------------------------------------------------------------------ *)
(* Properties of creation and reset                                     *)
(* ------------------------------------------------------------------ *)

\* this step is one of the reset handlers or the start of a system reset
ResetStep ==
    last_op' \in {"qemu_system_reset", "mac_via_reset",
                  "mos6522_q800_via1_reset", "mos6522_q800_via2_reset"}

\* C16: a device reset and a reset of either chip leave every PRAM entry
\* unchanged.
C16_PramPersists ==
    [][ResetStep => \A i \in 0 .. 255 : PramGet(PRAM', i) = PramGet(PRAM, i)]_vars

\* C16 witness: a second system reset, begun after the clock had moved, has
\* run all three reset handlers.
C16_Witness ==
    /\ last_op \in {"mac_via_reset", "mos6522_q800_via1_reset",
                    "mos6522_q800_via2_reset"}
    /\ reset_pending = {}
    /\ now = NANOSECONDS_PER_SECOND
    /\ VBL_timer > NANOSECONDS_PER_SECOND

AllArmed ==
    /\ VBL_timer # NotArmed
    /\ one_second_timer # NotArmed
    /\ adb_poll_timer # NotArmed

NoneArmed ==
    /\ VBL_timer = NotArmed
    /\ one_second_timer = NotArmed
    /\ adb_poll_timer = NotArmed

\* C17 as stated: from creation on, before any reset too, each of the three
\* alarms has a pending deadline.
C17_ArmedAtCreation == AllArmed

\* C17 amended: after creation and before the device reset no alarm has a
\* pending deadline; once the device reset has run, all three have one.
C17_ArmedAtReset ==
    /\ last_op = "init" => NoneArmed
    /\ NoneArmed \/ AllArmed
    /\ "mac_via" \notin reset_pending => AllArmed

\* C17 witness: the device reset has run at time 0 and armed the three
\* alarms, while the chips have still to be reset.
C17_Witness ==
    /\ last_op = "mac_via_reset"
    /\ reset_pending = {"via1", "via2"}
    /\ VBL_timer = VBL_PERIOD
    /\ one_second_timer = ONE_SECOND_PERIOD
    /\ adb_poll_timer = NANOSECONDS_PER_SECOND \div VIA_ADB_POLL_FREQ

Chip1 == [ifr |-> via1_ifr, b |-> via1_b, sr |-> via1_sr, input |-> adb_input]

\* Chip1 after alarm a has fired; rx is the byte a reporting poll stores
AlarmEffect(a, s, rx) ==
    IF a = "via1_VBL" THEN [s EXCEPT !.ifr = via1_VBL_ifr(s.ifr)]
    ELSE IF a = "via1_one_second"
         THEN [s EXCEPT !.ifr = via1_one_second_ifr(s.ifr)]
    ELSE LET polled == IF AdbIntSet(s.b) THEN adb_via_poll(s.input) ELSE 0
         IN [s EXCEPT !.b = via_adb_poll_b(s.b, polled),
                      !.sr = via_adb_poll_sr(s.sr, s.b, polled, rx),
                      !.input = (s.input /\ polled = 0)]

\* the six orders in which three alarms can fire
AlarmOrders ==
    {o \in [1 .. 3 -> {"via1_VBL", "via1_one_second", "via_adb_poll"}] :
        o[1] # o[2] /\ o[1] # o[3] /\ o[2] # o[3]}

\* Chip1 after the three alarms have fired in order o
FireAll(o, s, rx) ==
    AlarmEffect(o[3], AlarmEffect(o[2], AlarmEffect(o[1], s, rx), rx), rx)

AllDue == VBL_due /\ one_second_due /\ adb_poll_due

\* C19, in a state: with the three alarms due together, every firing order
\* gives the same flags, port B and shift register, and a second firing of
\* the blank or the tick alarm gives the flags of the first.
C19_SameResult ==
    AllDue =>
        /\ \A rx \in PollBytes : \A o1, o2 \in AlarmOrders :
               FireAll(o1, Chip1, rx) = FireAll(o2, Chip1, rx)
        /\ \A a \in {"via1_VBL", "via1_one_second"} :
               AlarmEffect(a, AlarmEffect(a, Chip1, 0), 0).ifr
                   = AlarmEffect(a, Chip1, 0).ifr

\* C19, in a step: an alarm that fires changes the flags, port B, the shift
\* register and the input held by the transport as AlarmEffect says.
C19_AlarmStep ==
    last_op' \in {"via1_VBL", "via1_one_second", "via_adb_poll"}
        => \E rx \in PollBytes : Chip1' = AlarmEffect(last_op', Chip1, rx)

\* C19: when the video-blank, one-second and ADB poll alarms are due at the
\* same virtual time, every firing order yields the same VIA1 interrupt
\* flags, port B and shift register, and firing the blank or the tick alarm
\* twice leaves the flags that firing it once leaves.
C19_OrderIndependent == []C19_SameResult /\ [][C19_AlarmStep]_vars

\* C19 witness: one second after reset the three alarms were due together
\* and have all fired: both flags are set, the poll has consumed the input
\* and cleared the status bit, and each alarm is armed again.
C19_Witness ==
    /\ now = NANOSECONDS_PER_SECOND
    /\ VBL_timer > now
    /\ one_second_timer = 2 * ONE_SECOND_PERIOD
    /\ adb_poll_timer = now + NANOSECONDS_PER_SECOND \div VIA_ADB_POLL_FREQ
    /\ via1_ifr = VIA1_IRQ_VBLANK + VIA1_IRQ_ONE_SECOND
    /\ adb_call.op = "poll" /\ adb_call.ret = 1
    /\ ~AdbIntSet(via1_b)

(* ------------------------------------------------------------------ *)
(* Properties of the latched command, PRAM and the write-protect flag   *)
(* ------------------------------------------------------------------ *)

\* C21, the command: a step that starts with a command latched ends with
\* the same command latched.
C21_SameCommand == cmd # 0 => cmd' = cmd

\* C21, the first-byte decoder: a byte completed under a latched command
\* stages nothing, or stages the PRAM entry of the extended read; it never
\* stages a seconds register or the PRAM entry a first byte selects.
C21_NoFirstByteDecode ==
    (cmd # 0 /\ ByteDone) =>
        \/ data_in' = data_in /\ data_in_cnt' = data_in_cnt
              /\ rtc_staged' = rtc_staged /\ pram_index' = pram_index
        \/ /\ BitAnd(cmd, 248) = 184
           /\ pram_index' = PramAddrExt(cmd, DoneByte)
           /\ data_in' = PramGet(PRAM, PramAddrExt(cmd, DoneByte))

\* C21: once the latched command is nonzero it keeps that exact value in
\* every later state, whatever byte completes, port B write, alarm or reset
\* follows; so after a first byte with the high bit clear, or one of the
\* 0xB8 pattern, no seconds-read or PRAM-read first-byte command is decoded
\* again.
C21_CommandKept == [][C21_SameCommand /\ C21_NoFirstByteDecode]_vars

\* C21 witness: the extended command 0xB8 was latched, the seconds-read byte
\* 0x81 completed after it, the clock moved, an alarm posted its flag and a
\* system reset has just run the device's reset handler; 0xB8 is still there.
C21_Witness ==
    /\ cmd = 184
    /\ xfer = << 184, 129 >>
    /\ now > 0
    /\ via1_ifr # 0
    /\ last_op = "mac_via_reset"

\* C22, in a step: each of the 256 PRAM entries keeps its value.
C22_SamePram == \A i \in 0 .. 255 : PramGet(PRAM', i) = PramGet(PRAM, i)

\* C22: no sequence of port B writes, alarm firings, interrupt-line changes
\* and resets ever modifies a PRAM entry.
C22_PramNeverWritten == [][C22_SamePram]_vars

\* C22 witness: the guest sent the write command for PRAM entry 0x10 and a
\* data byte, the device was reset, the clock moved and the alarms fired,
\* and the interrupt line was raised and has just been lowered.
C22_Witness ==
    /\ cmd = 33
    /\ xfer = << 33, 56 >>
    /\ via1_b = VIA1B_vADB_StateMask + VIA1B_vADBInt + VIA1B_vRTCEnb
    /\ now > 0
    /\ via1_ifr = VIA1_IRQ_VBLANK
    /\ last_op = "via1_irq_request"

\* C23: alt is 0 in every reachable state: it is 0 at creation, and its only
\* assignment of a nonzero value is in the write branch, which a command
\* of the 0xB8 pattern never reaches.
C23_AltZero == alt = 0

\* C23 witness: the extended command 0xB8 was latched and two more bytes
\* completed under it, the last one 0xB8 again.
C23_Witness ==
    /\ cmd = 184
    /\ xfer = << 184, 53, 184 >>
    /\ alt = 0

\* C24, in a state: write-protect is set only under the command 0x35.
C24_SetUnderCommand == wprotect # 0 => cmd = 53

\* C24, in a step: write-protect, once set, stays set.
C24_StaysSet == wprotect # 0 => wprotect' = wprotect

\* C24: in every reachable state write-protect set implies that the latched
\* command is 0x35, and once write-protect is set it is never cleared.
C24_WriteProtectSticks == []C24_SetUnderCommand /\ [][C24_StaysSet]_vars

\* C24 witness: under the command 0x35 an odd byte set write-protect, then a
\* byte with bit 0 clear completed, and write-protect is still set.
C24_Witness ==
    /\ cmd = 53
    /\ xfer = << 53, 53, 184 >>
    /\ wprotect = 1

(* ------------------------------------------------------------------ *)
(* Properties of the serial byte assembly and response emission         *)
(* ------------------------------------------------------------------ *)

\* this step is a port B write that leaves the RTC enabled with the data
\* line an output and the clock high, the previous snapshot having it low
RisingEdge ==
    /\ last_op' = "via1_portB_write"
    /\ BitAnd(via1_b', VIA1B_vRTCEnb) = 0
    /\ BitAnd(via1_dirb, VIA1B_vRTCData) # 0
    /\ BitAnd(last_b, VIA1B_vRTCClk) = 0
    /\ BitAnd(via1_b', VIA1B_vRTCClk) # 0

\* C25, the edges: data_out and data_out_cnt change only in a RisingEdge.
C25_OnlyOnRisingEdge ==
    (data_out' # data_out \/ data_out_cnt' # data_out_cnt) => RisingEdge

\* C25, the bits: each of the first seven rising edges shifts data_out left,
\* brings the data bit of port B in at the bottom and interprets nothing.
C25_ShiftsIn ==
    (RisingEdge /\ data_out_cnt < 7) =>
        /\ data_out' = 2 * data_out + (via1_b' % 2)
        /\ data_out_cnt' = data_out_cnt + 1
        /\ xfer' = xfer /\ cmd' = cmd /\ wprotect' = wprotect
        /\ data_in' = data_in /\ data_in_cnt' = data_in_cnt

\* C25, the byte: the eighth rising edge interprets the byte made of the
\* seven bits held, most significant first, and the data bit of port B.
C25_EighthInterprets ==
    (RisingEdge /\ data_out_cnt = 7) =>
        /\ data_out_cnt' = 0
        /\ cmd = 0 => xfer' = << DoneByte >>
        /\ (cmd # 0 /\ Len(xfer) < MaxXfer) => xfer' = Append(xfer, DoneByte)

\* C25, in a state: data_out holds as many bits as edges were counted.
C25_BitsHeld == data_out_cnt \in 0 .. 7 /\ data_out < 2 ^ data_out_cnt

\* C25: with the RTC enabled and the data line an output, data_out and
\* data_out_cnt change only on a port B write whose clock bit is 1 where the
\* previous snapshot had 0; a byte is interpreted once per eight such edges,
\* and it is the eight data bits sampled at those edges, first edge as the
\* most significant bit.
C25_ByteAssembly ==
    /\ []C25_BitsHeld
    /\ [][C25_OnlyOnRisingEdge /\ C25_ShiftsIn /\ C25_EighthInterprets]_vars

\* C25 witness: eight rising edges carried 0, 0, 1, 1, 0, 1, 0, 1 and the
\* byte 0x35 has just been interpreted as the command.
C25_Witness ==
    /\ xfer = << 53 >>
    /\ cmd = 53
    /\ data_out_cnt = 0
    /\ via1_b % 4 = VIA1B_vRTCClk + VIA1B_vRTCData
    /\ last_b = via1_b

\* this step is a port B write with the RTC enabled and the data line an
\* input
InputWrite ==
    /\ last_op' = "via1_portB_write"
    /\ BitAnd(via1_b', VIA1B_vRTCEnb) = 0
    /\ BitAnd(via1_dirb, VIA1B_vRTCData) = 0

\* an InputWrite that leaves the clock low, the previous snapshot having it
\* high
FallingEdge ==
    /\ InputWrite
    /\ BitAnd(last_b, VIA1B_vRTCClk) # 0
    /\ BitAnd(via1_b', VIA1B_vRTCClk) = 0

\* C26, the edges: an InputWrite changes port B bit 0, data_in or
\* data_in_cnt only if it is a FallingEdge with a response pending.
C26_OnlyOnFallingEdge ==
    (/\ InputWrite
     /\ \/ via1_b' % 2 # via1_b % 2
        \/ data_in' # data_in
        \/ data_in_cnt' # data_in_cnt
        \/ rtc_presented' # rtc_presented)
        => FallingEdge /\ data_in_cnt > 0

\* C26, the bit: a FallingEdge with a response pending presents bit 7 of
\* data_in on port B bit 0, shifts data_in left and decrements data_in_cnt.
C26_PresentsTopBit ==
    (FallingEdge /\ data_in_cnt > 0) =>
        /\ via1_b' % 2 = data_in \div 128
        /\ data_in' = (2 * data_in) % 256
        /\ data_in_cnt' = data_in_cnt - 1
        /\ Len(rtc_presented') = Len(rtc_presented) + 1

\* C26, the end: a FallingEdge with no response pending leaves port B bit 0
\* and data_in as they were.
C26_IdleEdge ==
    (FallingEdge /\ data_in_cnt = 0) =>
        /\ via1_b' % 2 = via1_b % 2
        /\ data_in' = data_in
        /\ data_in_cnt' = 0

\* C26, in a state: data_in_cnt counts the edges still to come of the eight
\* that follow a staging.
C26_EightEdges ==
    /\ data_in_cnt \in 0 .. 8
    /\ Len(rtc_presented) = 8 => data_in_cnt = 0

\* C26: with the RTC enabled and the data line an input, the engine drives
\* port B bit 0 only on a falling clock edge with data_in_cnt > 0; each such
\* edge presents bit 7 of data_in, shifts data_in left and decrements
\* data_in_cnt; after eight of them data_in_cnt is 0 and further falling
\* edges leave port B bit 0 and data_in unchanged.
C26_ResponseEmission ==
    /\ []C26_EightEdges
    /\ [][C26_OnlyOnFallingEdge /\ C26_PresentsTopBit /\ C26_IdleEdge]_vars

\* C26 witness: a staged byte with a 1 among its bits has been presented in
\* eight falling edges, the data line is still an input and the clock has
\* risen again, so that the next falling edge finds no response pending.
C26_Witness ==
    /\ Len(rtc_presented) = 8
    /\ rtc_staged # 0
    /\ data_in_cnt = 0
    /\ BitAnd(via1_dirb, VIA1B_vRTCData) = 0
    /\ BitAnd(via1_b, VIA1B_vRTCEnb) = 0
    /\ BitAnd(via1_b, VIA1B_vRTCClk) # 0

\* C27, in a step: a byte b completed under a command c of the 0xB8 pattern
\* stages PRAM[(c & 7) * 8 + ((b >> 2) & 0x1F)] with data_in_cnt = 8; the
\* write-protect flag is not asked.
C27_StagesSectorEntry ==
    (ByteDone /\ cmd \div 8 = 23) =>
        LET index == ((cmd % 8) * 8) + ((DoneByte \div 4) % 32)
        IN /\ pram_index' = index
           /\ data_in' = PramGet(PRAM, index)
           /\ rtc_staged' = data_in'
           /\ data_in_cnt' = 8

\* C27: when a byte b completes while the latched command c satisfies
\* (c & 0xF8) == 0xB8, the staged response is
\* PRAM[(c & 7) * 8 + ((b >> 2) & 0x1F)] with data_in_cnt = 8, whether or
\* not write-protect is set.
C27_ExtendedRead == [][C27_StagesSectorEntry]_vars

\* C27 witness: under the command 0xB9 (sector 1) the byte 0x5A completed
\* and entry 8 + 22 is staged.
C27_Witness ==
    /\ cmd = 185
    /\ xfer = << 185, 90 >>
    /\ pram_index = 30
    /\ data_in_cnt = 8

\* C28, in a step: the port B write that brings in the eighth bit ends with
\* data_out = 0 and data_out_cnt = 0.
C28_Cleared ==
    (RisingEdge /\ data_out_cnt = 7) =>
        /\ data_out' = 0
        /\ data_out_cnt' = 0

\* C28: every completed byte leaves data_out = 0 and data_out_cnt = 0 at the
\* end of the port B write handler, whichever decode branch was taken.
C28_ByteClearsAssembly == [][C28_Cleared]_vars

\* C28 witness: the bytes 0xAD (a read), 0x5A (latched as a write command),
\* 0xB9 (no rule under 0x5A) have completed, and nothing is left in
\* data_out.
C28_Witness ==
    /\ cmd = 90
    /\ xfer = << 90, 185 >>
    /\ pram_index = 3
    /\ data_out = 0
    /\ data_out_cnt = 0
    /\ last_b = via1_b
    /\ BitAnd(via1_b, VIA1B_vRTCClk) # 0

(* ------------------------------------------------------------------ *)
(* Properties of the alarm callbacks                                    *)
(* ------------------------------------------------------------------ *)

\* this step sets the flag bit in the VIA1 flags and calls update_irq on
\* VIA1 with them
PostsFlag(bit) ==
    /\ BitAnd(via1_ifr', bit) = bit
    /\ BitClear(via1_ifr', bit) = BitClear(via1_ifr, bit)
    /\ irq_call'.chip = "via1"
    /\ irq_call'.ifr = via1_ifr'
    /\ irq_call'.parity # irq_call.parity

\* this step sets some VIA1 flag and calls update_irq
PostsSomeFlag == via1_ifr' # 0 /\ irq_call' # irq_call

\* this step sets no flag and calls update_irq on neither chip
PostsNothing ==
    via1_ifr' = via1_ifr /\ via2_ifr' = via2_ifr /\ irq_call' = irq_call

\* C29, the blank and tick alarms: each sets its flag in the VIA1 flags,
\* calls update_irq and has a deadline after the present time.
C29_BlankAndTick ==
    /\ last_op' = "via1_VBL"
          => PostsFlag(VIA1_IRQ_VBLANK) /\ VBL_timer' > now
    /\ last_op' = "via1_one_second"
          => PostsFlag(VIA1_IRQ_ONE_SECOND) /\ one_second_timer' > NowMs

\* C29 as stated: each of the three alarms, on firing, sets a flag in the
\* VIA1 interrupt flags, triggers the recomputation of the interrupt line
\* and re-arms itself, the ADB poll alarm like the other two.
C29_EachPostsFlag ==
    [][/\ C29_BlankAndTick
       /\ last_op' = "via_adb_poll"
             => PostsSomeFlag /\ adb_poll_timer' > now]_vars

\* C29 amended: the video-blank and one-second alarms, on firing, set the
\* blank and the tick flag in the VIA1 interrupt flags, trigger the
\* recomputation of the interrupt line and re-arm themselves; the ADB poll
\* alarm drives the poll and re-arms itself, and sets no interrupt flag and
\* triggers no recomputation.
C29_PollPostsNothing ==
    [][/\ C29_BlankAndTick
       /\ last_op' = "via_adb_poll"
             => PostsNothing /\ adb_poll_timer' > now]_vars

\* C29 witness: the blank alarm fired and posted its flag, then the poll
\* alarm fired: the flags and the last update_irq call are those the blank
\* alarm left, and both alarms are armed again.
C29_Witness ==
    /\ last_op = "via_adb_poll"
    /\ via1_ifr = VIA1_IRQ_VBLANK
    /\ irq_call.chip = "via1" /\ irq_call.ifr = VIA1_IRQ_VBLANK
    /\ VBL_timer > now
    /\ adb_poll_timer > now

\* C30, in a state: once the device reset has run, each alarm has a deadline.
C30_ArmedByReset == last_op = "mac_via_reset" => AllArmed

\* C30, in a step: an alarm that has a deadline has one after the step.
C30_NoneCancelled ==
    /\ VBL_timer # NotArmed => VBL_timer' # NotArmed
    /\ one_second_timer # NotArmed => one_second_timer' # NotArmed
    /\ adb_poll_timer # NotArmed => adb_poll_timer' # NotArmed

\* the callbacks of the three alarms
Alarms == {"via1_VBL", "via1_one_second", "via_adb_poll"}

\* C30, in a behaviour: while virtual time has still to advance, each alarm
\* that has a deadline fires at a later time.
C30_FiresAgain ==
    \A t \in ClockTimes \ {LastSecond} : \A a \in Alarms :
        (AllArmed /\ now = t) ~> (last_op = a /\ now > t)

C31_OnTheGrid ==
    /\ VBL_timer # NotArmed => VBL_timer % VBL_PERIOD = 0
    /\ one_second_timer # NotArmed
          => one_second_timer % ONE_SECOND_PERIOD = 0

\* C31, in a step: a deadline set at time t is after t and at most one
\* period after t, and an alarm that fires on its deadline gets another one.
C31_WithinOnePeriod ==
    /\ VBL_rearmed
          => /\ now < VBL_timer' /\ VBL_timer' <= now + VBL_PERIOD
             /\ (last_op' = "via1_VBL" /\ now = VBL_timer)
                   => VBL_timer' # VBL_timer
    /\ one_second_rearmed
          => /\ NowMs < one_second_timer'
             /\ one_second_timer' <= NowMs + ONE_SECOND_PERIOD
             /\ (last_op' = "via1_one_second" /\ NowMs = one_second_timer)
                   => one_second_timer' # one_second_timer

\* C31: every deadline set for the video-blank alarm is a multiple of
\* 16630 ns and every deadline of the one-second alarm a multiple of 1000 ms,
\* however late the callback runs; each is later than the time t at which it
\* is set and at most t plus one period, so an alarm that fires exactly on
\* its deadline is never re-armed for the same instant.
C31_DriftFree == []C31_OnTheGrid /\ [][C31_WithinOnePeriod]_vars

\* C31 witness: the one-second alarm fired exactly on its deadline of
\* 1000 ms and is armed for 2000 ms, and the video-blank alarm, run late,
\* is armed for a multiple of its period.
C31_Witness ==
    /\ last_op = "via1_one_second"
    /\ NowMs = ONE_SECOND_PERIOD
    /\ one_second_timer = 2 * ONE_SECOND_PERIOD
    /\ VBL_timer > now
    /\ VBL_timer % VBL_PERIOD = 0

\* this step is a write to port B of VIA1
WriteStep == last_op' = "via1_portB_write"

\* C32, the RTC engine: it runs in every write, against the snapshot the
\* previous write left: a rising edge counts a bit, a falling edge with a
\* response pending presents one, and the snapshot has the bit presented.
C32_RtcAgainstSnapshot ==
    /\ RisingEdge => data_out_cnt' = (data_out_cnt + 1) % 8
    /\ (FallingEdge /\ data_in_cnt > 0)
          => /\ data_in_cnt' = data_in_cnt - 1
             /\ last_b' % 2 = data_in \div 128

\* C32, the ADB engine: every write makes one transport call, a send in
\* output mode and a receive in input mode, for the state on port B, and
\* leaves the status bit as the result of that call says.
C32_OneTransportCall ==
    WriteStep =>
        /\ adb_call'.op = IF BitAnd(via1_acr, VIA1ACR_vShiftOut) # 0
                          THEN "send" ELSE "receive"
        /\ adb_call'.state = AdbState(via1_b')
        /\ AdbIntSet(via1_b')
              <=> ~(adb_call'.ret > 0
                      /\ (adb_call'.op = "receive" => via1_sr' # 255))

\* C32, the snapshot: it is taken last, from the port B value the two
\* engines leave.
C32_SnapshotLast == WriteStep => last_b' = via1_b'

\* C32: every write to port B of VIA1 runs the RTC engine, then the ADB
\* engine, then updates the snapshot of port B; the ADB engine makes one
\* transport send or receive in every such write, also in a write that
\* only moves the RTC clock and data lines and in one made with the RTC
\* disabled.
C32_WriteOrder ==
    [][C32_RtcAgainstSnapshot /\ C32_OneTransportCall /\ C32_SnapshotLast]_vars

\* C32 witness: with a response staged, a write made with the RTC disabled
\* reached the transport, whose send succeeded: the status bit is clear and
\* the snapshot has it clear.
C32_Witness ==
    /\ last_op = "via1_portB_write"
    /\ BitAnd(via1_b, VIA1B_vRTCEnb) # 0
    /\ data_in_cnt = 8
    /\ adb_call.op = "send" /\ adb_call.ret = 1
    /\ ~AdbIntSet(via1_b)
    /\ last_b = via1_b

\* C33, in a step: the snapshot changes only in a write to port B of VIA1,
\* and that write leaves in it the port B value it ends with.
C33_OnlyAtWrite ==
    /\ last_b' # last_b => WriteStep
    /\ WriteStep => last_b' = via1_b'

\* C33, in a step: a write counts a bit when the clock is high and the
\* snapshot has it low, whatever port B held just before the write.
C33_EdgeAgainstSnapshot ==
    (WriteStep /\ ~RisingEdge) => data_out_cnt' = data_out_cnt

\* C33: the snapshot last_b changes only at the end of the handler of a
\* write to port B of VIA1, where it takes the final port B value; a chip
\* reset, the ADB poll alarm, the other alarms and the interrupt lines
\* change port B or other state and leave last_b alone, so an edge is
\* always measured against the value the previous write left.
C33_SnapshotFrame == [][C33_OnlyAtWrite /\ C33_EdgeAgainstSnapshot]_vars

\* C33 witness: a write left the clock high in the snapshot with a response
\* staged, and the chip reset that followed changed port B to its default,
\* clock low, and left the snapshot as it was.
C33_Witness ==
    /\ last_op = "mos6522_q800_via1_reset"
    /\ via1_b = VIA1B_vADB_StateMask + VIA1B_vADBInt + VIA1B_vRTCEnb
    /\ BitAnd(last_b, VIA1B_vRTCClk) # 0
    /\ BitAnd(last_b, VIA1B_vRTCEnb) = 0
    /\ data_in_cnt = 8


\* The bit counters: the guest writes every value of the three RTC bits
\* of port B, switches the direction of the data line and the machine is
\* reset, each at any bit of a byte.
CountBytes == {129}

NextCount ==
    \/ qemu_system_reset
    \/ DeviceReset
    \/ \E val \in WriteVals :
          GuestSends(val, CountBytes) /\ Via1WriteB(val, 0, NoData)
    \/ \E val \in {6, 7} : Via1WriteDirB(val)

SpecCount == InitWith({U32(4660, 22136)}) /\ [][NextCount]_vars

\* The PRAM indices: the last sector with its last entry (0xBF, then
\* 0xFF), the first-byte read of the last entry of the small window
\* (0xAD), and the write-protect command (0x35).
IndexBytes == {53, 173, 191, 255}

NextIndex ==
    \/ DeviceReset
    \/ \E val \in 0 .. 3 :
          GuestSends(val, IndexBytes) /\ Via1WriteB(val, 0, NoData)

SpecIndex == InitWith({U32(4660, 22136)}) /\ [][NextIndex]_vars

\* Resets in the middle of the serial protocol: the guest reads seconds
\* register 0 and sets write-protect (0x35, then a byte with bit 0 set),
\* and the machine is reset at any bit of a command or of a response.
ResumeBytes == {53, 129}

NextResume ==
    \/ qemu_system_reset
    \/ DeviceReset
    \/ \E val \in LatchVals :
          GuestSends(val, ResumeBytes) /\ Via1WriteB(val, 0, NoData)
    \/ \E val \in {6, 7} : BetweenBytes /\ Via1WriteDirB(val)

SpecResume == InitWith({U32(4660, 22136)}) /\ [][NextResume]_vars

(* ------------------------------------------------------------------ *)
(* C34: the values a chip reset leaves                                  *)
(* ------------------------------------------------------------------ *)
\* C34, VIA1: the reset leaves port B at 0x3C, which is the two ADB state
\* bits, the ADB interrupt bit and the RTC enable bit, and both timers at
\* 783360 Hz.
C34_Via1Values ==
    last_op' = "mos6522_q800_via1_reset" =>
        /\ via1_b' = 60
        /\ BitAnd(via1_b', VIA1B_vADB_StateMask) = 48
        /\ BitAnd(via1_b', VIA1B_vADBInt) = 8
        /\ BitAnd(via1_b', VIA1B_vRTCEnb) = 4
        /\ via1_frequency' = << 783360, 783360 >>

\* C34, VIA2: the reset leaves the direction and the data register of
\* port B at 0 and both timers at 783360 Hz.
C34_Via2Values ==
    last_op' = "mos6522_q800_via2_reset" =>
        /\ via2_dirb' = 0
        /\ via2_b' = 0
        /\ via2_frequency' = << 783360, 783360 >>

\* C34: after a chip reset port B of VIA1 is 0x3C (ADB state bits 0x30,
\* ADB interrupt bit 0x08 and RTC enable bit 0x04 all set), the port B
\* direction and data registers of VIA2 are 0, and both timers of both
\* chips have the input frequency 783360 Hz.
C34_ResetValues == [][C34_Via1Values /\ C34_Via2Values]_vars

\* C34 witness: the guest had made the power line of VIA2 an output and
\* driven it low, and had written port B of VIA1; the machine reset that
\* followed has run both chip resets and left the default values.
C34_Witness ==
    /\ shutdown_requests > 0
    /\ reset_pending = {}
    /\ last_op \in {"mos6522_q800_via1_reset", "mos6522_q800_via2_reset"}
    /\ via1_b = 60 /\ last_b # 60
    /\ via2_dirb = 0 /\ via2_b = 0
    /\ via1_frequency = << VIA_TIMER_FREQ, VIA_TIMER_FREQ >>
    /\ via2_frequency = << VIA_TIMER_FREQ, VIA_TIMER_FREQ >>


(* ------------------------------------------------------------------ *)
(* C35: the ranges of the two bit counters                              *)
(* ------------------------------------------------------------------ *)
\* C35, in a state: both counters are between 0 and 8.
C35_InRange ==
    /\ 0 <= data_out_cnt /\ data_out_cnt <= 8
    /\ 0 <= data_in_cnt /\ data_in_cnt <= 8

\* C35, in a step: data_in_cnt goes down by one at most and never from 0,
\* and data_out_cnt goes up by one at most.
C35_CountsByOne ==
    /\ data_in_cnt' < data_in_cnt =>
           data_in_cnt > 0 /\ data_in_cnt' = data_in_cnt - 1
    /\ data_out_cnt' > data_out_cnt => data_out_cnt' = data_out_cnt + 1

\* C35: in every reachable state 0 <= data_out_cnt <= 8 and
\* 0 <= data_in_cnt <= 8; data_in_cnt is never decremented below 0 and
\* data_out_cnt never exceeds 8, under any sequence of port B writes,
\* direction changes, enable toggles and resets.
C35_CounterRanges == []C35_InRange /\ [][C35_CountsByOne]_vars

\* C35 witness: a response is being clocked out with the data line an
\* input, its count between the ends of the range, while a byte the guest
\* left unfinished before it turned the line around is still counted.
C35_Witness ==
    /\ last_op = "via1_portB_write"
    /\ data_in_cnt \in 1 .. 7
    /\ data_out_cnt \in 1 .. 7
    /\ BitAnd(via1_dirb, VIA1B_vRTCData) = 0
    /\ BitAnd(via1_b, VIA1B_vRTCEnb) = 0


(* ------------------------------------------------------------------ *)
(* C36: the bounds of the PRAM indices                                  *)
(* ------------------------------------------------------------------ *)
\* C36, in a state: the index last used is inside the store, and so is the
\* index every byte that may complete next would select, by the first-byte
\* read rule and, under the latched command, by the extended rule.
C36_IndexInStore ==
    /\ pram_index = NoIndex \/ (0 <= pram_index /\ pram_index < 256)
    /\ \A x \in 0 .. 255 :
          /\ PramAddr4(x) \in 0 .. 3
          /\ PramAddrExt(cmd, x) \in 0 .. 87
    /\ PramAddrExt(cmd, alt) \in 0 .. 87
    /\ DOMAIN PRAM \subseteq 0 .. 255

\* C36, in a step: a first-byte read selects (b >> 2) & 3, an extended
\* read at most 87, and the store changes only with write-protect clear.
C36_IndexOfStep ==
    /\ (ByteDone /\ cmd = 0 /\ pram_index' # pram_index) =>
           pram_index' = (DoneByte \div 4) % 4
    /\ (ByteDone /\ cmd # 0 /\ pram_index' # pram_index) =>
           pram_index' \in 0 .. 87
    /\ PRAM' # PRAM => wprotect = 0

\* C36: every PRAM index the RTC engine computes, for every completed
\* byte and every latched command, lies in [0, 256): first-byte reads use
\* (b >> 2) & 3 and extended accesses use (c & 7) * 8 + (x >> 2 & 0x1F),
\* at most 87; and every PRAM store is reached only with write-protect
\* clear.
C36_IndexBounds == []C36_IndexInStore /\ [][C36_IndexOfStep]_vars

\* C36 witness: under the command 0xBF (sector 7) the byte 0xFF completed
\* and the entry 7 * 8 + 31 = 87, the highest one, is staged.
C36_Witness ==
    /\ cmd = 191
    /\ xfer = << 191, 255 >>
    /\ pram_index = 87
    /\ data_in_cnt = 8


(* ------------------------------------------------------------------ *)
(* C37: the four reads of the seconds counter are separate samples      *)
(* ------------------------------------------------------------------ *)
\* C37, in a step: a seconds command that completes after another one
\* stages its byte of the counter as the clock has it at this step.
C37_FreshAtCompletion ==
    \A r1, r2 \in 0 .. 3 :
        (/\ ByteDone /\ cmd = 0
         /\ xfer = << 129 + 4 * r1 >>
         /\ DoneByte = 129 + 4 * r2)
            => /\ rtc_staged' = Digits(SecondsNow)[r2 + 1]
               /\ data_in' = rtc_staged'
               /\ now' = now

\* C37, in a step: when the clock moves on, a response staged or already
\* presented stays the byte that was sampled.
C37_StaleAfterTick ==
    now' # now =>
        /\ rtc_staged' = rtc_staged
        /\ rtc_presented' = rtc_presented
        /\ data_in' = data_in /\ data_in_cnt' = data_in_cnt

\* the counter held a value with low bytes b0 and b1 at some second so far
HeldSoFar(b0, b1) ==
    \E k \in 0 .. (now \div NANOSECONDS_PER_SECOND) :
        /\ Digits(Add32(tick_offset, k))[1] = b0
        /\ Digits(Add32(tick_offset, k))[2] = b1

\* C37: the four reads of the seconds counter are not atomic: each of the
\* commands 0x81, 0x85, 0x89, 0x8D samples the clock on its own when its
\* byte completes, and a byte sampled earlier is not refreshed, so when
\* the clock crosses a second between two of them the bytes can assemble
\* a value the counter never held.
C37_SeparateSamples ==
    [][C37_FreshAtCompletion /\ C37_StaleAfterTick]_vars

\* C37 witness: byte 0 was read as 0xFF from the counter 0xFFFFFFFF, the
\* clock crossed the second and the counter is 0, and the last bit of the
\* command 0x85 is about to be sent: byte 1 will be read as 0x00, and the
\* counter never held a value ending in 0x00FF.
C37_Witness ==
    /\ xfer = << 129 >>
    /\ rtc_staged = 255
    /\ Len(rtc_presented) = 8
    /\ cmd = 0 /\ data_out_cnt = 7 /\ data_out = 133 \div 2
    /\ Digits(SecondsNow)[2] = 0
    /\ ~HeldSoFar(rtc_staged, Digits(SecondsNow)[2])


(* ------------------------------------------------------------------ *)
(* C38: the RTC serial state across resets                              *)
(* ------------------------------------------------------------------ *)
\* C38, in a step: the device reset and the reset of VIA1 leave the
\* assembly and response bytes, their counts, the latched command, alt and
\* write-protect as they were.
C38_SerialStateKept ==
    last_op' \in {"mac_via_reset", "mos6522_q800_via1_reset"} =>
        /\ data_out' = data_out /\ data_out_cnt' = data_out_cnt
        /\ data_in' = data_in /\ data_in_cnt' = data_in_cnt
        /\ cmd' = cmd /\ alt' = alt /\ wprotect' = wprotect

\* C38, in a step: the first bit the guest clocks in after the resets is
\* counted on top of the bits received before them.
C38_Resumes ==
    (WriteStep /\ last_op \in {"mac_via_reset", "mos6522_q800_via1_reset",
                               "mos6522_q800_via2_reset"}
               /\ data_out_cnt' > 0 /\ data_out_cnt' # data_out_cnt)
        => /\ data_out_cnt' = data_out_cnt + 1
           /\ data_out' \div 2 = data_out

\* C38: the device reset and the reset of VIA1 leave the whole RTC serial
\* state unchanged (data_out, data_out_cnt, data_in, data_in_cnt, cmd,
\* alt, wprotect): a byte transfer interrupted by a reset resumes with the
\* bit count and the partial byte it had, and a latched command or
\* write-protect survives the reset.
C38_SerialStateSurvives == [][C38_SerialStateKept /\ C38_Resumes]_vars

\* C38 witness: with the command 0x35 latched, write-protect set, five
\* bits of a response not yet read and three bits of a byte received, the
\* machine was reset; all of it is still there after the reset handlers.
C38_Witness ==
    /\ last_op \in {"mac_via_reset", "mos6522_q800_via1_reset"}
    /\ reset_pending = {}
    /\ via1_b = 60
    /\ cmd = 53 /\ wprotect = 1
    /\ data_in_cnt = 5
    /\ data_out_cnt = 3 /\ data_out = 129 \div 32


(* ------------------------------------------------------------------ *)
(* C39: what the ADB poll alarm may change                              *)
(* ------------------------------------------------------------------ *)
\* C39, in a step of the poll alarm: with the status bit clear the
\* transport is not called and port B and the shift register stay; with a
\* poll that reports nothing port B stays; the bit is never set, no other
\* bit of port B changes, and the interrupt flags stay.
C39_PollAlarmStep ==
    last_op' = "via_adb_poll" =>
        /\ ~AdbIntSet(via1_b) =>
               /\ adb_call' = adb_call
               /\ via1_b' = via1_b /\ via1_sr' = via1_sr
        /\ (AdbIntSet(via1_b) /\ adb_call'.ret = 0) =>
               /\ adb_call'.op = "poll"
               /\ via1_b' = via1_b
        /\ AdbIntSet(via1_b') => AdbIntSet(via1_b)
        /\ BitClear(via1_b', VIA1B_vADBInt) = BitClear(via1_b, VIA1B_vADBInt)
        /\ via1_ifr' = via1_ifr /\ via2_ifr' = via2_ifr
        /\ irq_call' = irq_call

\* C39: the ADB poll alarm can only move the ADB status bit from set to
\* clear: when port B bit 0x08 is already clear at firing the transport is
\* not polled and port B and the shift register are unchanged, when the
\* poll reports no data port B is unchanged, and in no case does the
\* alarm set the bit or modify the interrupt flag register.
C39_PollOnlyClears == [][C39_PollAlarmStep]_vars

\* C39 witness: the poll alarm fired with the status bit clear and input
\* waiting: the last transport call is still the one a port B write made,
\* the bit is clear, and the flag an interrupt line posted is still set.
C39_Witness ==
    /\ last_op = "via_adb_poll"
    /\ ~AdbIntSet(via1_b)
    /\ adb_input
    /\ adb_call.op \notin {"poll", "none"}
    /\ via1_ifr # 0


(* ------------------------------------------------------------------ *)
(* C40: the bound of the accumulator                                    *)
(* ------------------------------------------------------------------ *)
\* C40, at the end of a write to port B: at most seven bits are counted
\* and data_out holds no bit beyond them.
C40_AfterWrite ==
    WriteStep => data_out_cnt' <= 7 /\ data_out' < 2 ^ data_out_cnt'

\* C40, in a step that counts a bit without completing a byte: the
\* accumulator is the one before with the new bit appended, no bit lost
\* at the top.
C40_NoBitLost ==
    (WriteStep /\ data_out_cnt' = data_out_cnt + 1)
        => /\ data_out' \div 2 = data_out
           /\ data_out' < 256

\* C40: at the end of every handler of a write to port B of VIA1
\* data_out_cnt <= 7 and data_out < 2^data_out_cnt, so the accumulator
\* never holds bits of a previous byte and never overflows eight bits
\* during assembly, across direction switches and RTC enable toggles in
\* the middle of a byte.
C40_AccumulatorBound == [][C40_AfterWrite /\ C40_NoBitLost]_vars

\* C40 witness: seven bits of a byte are assembled, the first of them a
\* one, and the guest has since made the data line an input and disabled
\* the RTC with a write to port B.
C40_Witness ==
    /\ last_op = "via1_portB_write"
    /\ data_out_cnt = 7 /\ data_out = 129 \div 2
    /\ BitAnd(via1_dirb, VIA1B_vRTCData) = 0
    /\ BitAnd(via1_b, VIA1B_vRTCEnb) # 0

====
